---------------------------- MODULE Spec2Model ----------------------------
(***************************************************************************)
(* Model of the code-assistant retrieval-and-analysis pipeline:            *)
(*   backend/agent.py            the five-stage LangGraph pipeline         *)
(*   mcp_servers/filesystem_server.py   the local corpus accessor          *)
(*   mcp_servers/code_analyzer.py       the structural analyzer            *)
(*   mcp_servers/github_server.py       the remote-repository collaborator *)
(*                                                                         *)
(* Text (queries, file names, patterns, source lines) is a sequence of     *)
(* one-character strings, so that substring search, glob matching, case    *)
(* folding and suffix tests are computed character by character as the     *)
(* Python code computes them.                                              *)
(***************************************************************************)
EXTENDS Integers, Sequences, FiniteSets, TLC

(***************************************************************************)
(* Text primitives (Python str operations used by the code)                *)
(***************************************************************************)

UpperAlpha ==
    << "A", "B", "C", "D", "E", "F", "G", "H", "I", "J", "K", "L", "M",
       "N", "O", "P", "Q", "R", "S", "T", "U", "V", "W", "X", "Y", "Z" >>

LowerAlpha ==
    << "a", "b", "c", "d", "e", "f", "g", "h", "i", "j", "k", "l", "m",
       "n", "o", "p", "q", "r", "s", "t", "u", "v", "w", "x", "y", "z" >>

\* str.lower() on one character
LowerChar(c) ==
    IF \E i \in 1..26 : UpperAlpha[i] = c
    THEN LowerAlpha[CHOOSE i \in 1..26 : UpperAlpha[i] = c]
    ELSE c

\* str.lower()
Lower(s) == [i \in 1..Len(s) |-> LowerChar(s[i])]

\* s[i-1:i-1+len(w)] == w   (w occurs in s at 1-based position i)
OccursAt(w, s, i) ==
    /\ i >= 1
    /\ i + Len(w) - 1 <= Len(s)
    /\ \A k \in 1..Len(w) : s[i + k - 1] = w[k]

\* Python "w in s" on strings
Contains(s, w) == \E i \in 1..(Len(s) + 1) : OccursAt(w, s, i)

\* str.endswith
EndsWith(s, w) == Len(w) <= Len(s) /\ OccursAt(w, s, Len(s) - Len(w) + 1)

\* str.startswith
StartsWith(s, w) == OccursAt(w, s, 1)

\* list slicing xs[:n]
Take(xs, n) == SubSeq(xs, 1, IF Len(xs) < n THEN Len(xs) ELSE n)

\* list slicing xs[i:] for a 1-based i
From(xs, i) == SubSeq(xs, i, Len(xs))

RECURSIVE Flatten(_)
\* concatenation of a sequence of sequences (successive list.extend calls)
Flatten(xss) ==
    IF xss = << >> THEN << >> ELSE Head(xss) \o Flatten(Tail(xss))

\* fnmatch.fnmatch(name, pat) for patterns made of literals and "*"
\* (POSIX normcase is the identity, so the match is case-sensitive)
RECURSIVE fnmatch(_, _)
fnmatch(name, pat) ==
    IF pat = << >> THEN name = << >>
    ELSE IF Head(pat) = "*"
         THEN \/ fnmatch(name, Tail(pat))
              \/ (name # << >> /\ fnmatch(Tail(name), pat))
         ELSE /\ name # << >>
              /\ Head(name) = Head(pat)
              /\ fnmatch(Tail(name), Tail(pat))

\* pathlib PurePath.suffix of a final path component
Suffix(name) ==
    LET dots == {i \in 1..Len(name) : name[i] = "."}
    IN  IF dots = {} THEN << >>
        ELSE LET i == CHOOSE d \in dots : \A e \in dots : e <= d
             IN  IF 1 < i /\ i < Len(name) THEN From(name, i) ELSE << >>


(***************************************************************************)
(* The file system seen by FileSystemMCP                                   *)
(*                                                                         *)
(* A corpus is the sequence of files under the repository root in os.walk  *)
(* order.  A file is a record                                              *)
(*   dir    the directories from the root down to the file                 *)
(*   name   the file name                                                  *)
(*   stat   whether Path.stat() succeeds                                   *)
(*   data   "text", "binary" (not UTF-8) or "denied" (open raises)         *)
(*   lines  content.splitlines()                                           *)
(*   syntax 0 when ast.parse accepts the content, else SyntaxError.lineno  *)
(*   raises whether ast.parse raises an exception other than SyntaxError   *)
(*   nodes  the definitions and imports of the content in ast.walk order;  *)
(*          depth is 0 for a top-level statement, doc whether a function   *)
(*          has a docstring                                                *)
(*   cc     radon cc_visit: [ok, blocks]; ok = FALSE when it raises        *)
(*   mi     radon mi_visit: [ok, value]; ok = FALSE when it raises         *)
(* A path is a sequence of components, each a text.                        *)
(***************************************************************************)

DotDot == <<".", ".">>

\* FileSystemMCP.repo_path: the absolute path of the repository root
RepoPath == << <<"s", "r", "v">>, <<"r", "e", "p", "o">> >>

\* a file outside the repository root: /etc/passwd
OutsideFiles ==
    << [dir |-> << <<"e", "t", "c">> >>,
        name |-> <<"p", "a", "s", "s", "w", "d">>,
        stat |-> TRUE, data |-> "text",
        lines |-> << <<"r", "o", "o", "t", ":", "x", ":", "0">> >>,
        syntax |-> 1, raises |-> FALSE, nodes |-> << >>,
        cc |-> [ok |-> FALSE, blocks |-> << >>],
        mi |-> [ok |-> FALSE, value |-> 0]] >>

\* absolute path of a file of the corpus
AbsPath(f) == RepoPath \o f.dir \o <<f.name>>

\* absolute path of a file outside the root
OutsidePath(f) == f.dir \o <<f.name>>

\* the absolute paths of all regular files of the machine
FilePaths(corpus) ==
    {AbsPath(corpus[i]) : i \in 1..Len(corpus)}
        \cup {OutsidePath(OutsideFiles[i]) : i \in 1..Len(OutsideFiles)}

\* the file record stored at an absolute path
FileAt(corpus, p) ==
    IF \E i \in 1..Len(corpus) : AbsPath(corpus[i]) = p
    THEN corpus[CHOOSE i \in 1..Len(corpus) : AbsPath(corpus[i]) = p]
    ELSE OutsideFiles[CHOOSE i \in 1..Len(OutsideFiles) :
                          OutsidePath(OutsideFiles[i]) = p]

IsFile(corpus, p) == p \in FilePaths(corpus)

\* a directory exists when it is the root, lies above the repository root,
\* or holds a file somewhere below it
IsDir(corpus, p) ==
    \/ Len(p) <= Len(RepoPath) /\ p = SubSeq(RepoPath, 1, Len(p))
    \/ \E q \in FilePaths(corpus) : Len(p) < Len(q) /\ SubSeq(q, 1, Len(p)) = p

\* the operating system's resolution of a path, component by component:
\* ".." steps to the parent of the directory reached so far
RECURSIVE OsResolve(_, _, _)
OsResolve(corpus, cur, rest) ==
    IF rest = << >>
    THEN [ok |-> IsDir(corpus, cur) \/ IsFile(corpus, cur), path |-> cur]
    ELSE IF ~IsDir(corpus, cur)
         THEN [ok |-> FALSE, path |-> cur]
         ELSE IF Head(rest) = DotDot
              THEN OsResolve(corpus,
                             IF cur = << >> THEN cur
                             ELSE SubSeq(cur, 1, Len(cur) - 1),
                             Tail(rest))
              ELSE OsResolve(corpus, cur \o <<Head(rest)>>, Tail(rest))

\* pathlib "repo_path / file_path": an absolute right operand replaces the left
JoinPath(root, req) == IF req.abs THEN req.parts ELSE root \o req.parts

\* PurePath.is_relative_to: a comparison of the path components as written;
\* ".." components are not collapsed
is_relative_to(full, root) ==
    Len(root) <= Len(full) /\ SubSeq(full, 1, Len(root)) = root

RECURSIVE SumLen(_)
\* len(content): the characters of every line plus its line break
SumLen(lines) ==
    IF lines = << >> THEN 0 ELSE Len(Head(lines)) + 1 + SumLen(Tail(lines))

\* FileSystemMCP.read_file
read_file(corpus, req) ==
    LET full == JoinPath(RepoPath, req)
        res  == OsResolve(corpus, << >>, full)
    IN  IF ~res.ok
        THEN [error |-> "File not found"]
        ELSE IF ~is_relative_to(full, RepoPath)
        THEN [error |-> "Access denied: Path outside repository"]
        ELSE IF ~IsFile(corpus, res.path)
        THEN [error |-> "Is a directory"]
        ELSE LET f == FileAt(corpus, res.path)
             IN  IF f.data = "binary"
                 THEN [error |-> "Binary file or encoding issue"]
                 ELSE IF f.data = "denied"
                 THEN [error |-> "Permission denied"]
                 ELSE [path |-> req.parts,
                       content |-> f.lines,
                       lines |-> Len(f.lines),
                       size |-> SumLen(f.lines)]

\* FileSystemMCP.allowed_extensions
allowed_extensions ==
    { <<".", "p", "y">>, <<".", "j", "s">>, <<".", "t", "s">>,
      <<".", "j", "s", "x">>, <<".", "t", "s", "x">>,
      <<".", "j", "a", "v", "a">>, <<".", "c", "p", "p">>, <<".", "c">>,
      <<".", "h">>, <<".", "g", "o">>, <<".", "r", "s">>,
      <<".", "p", "h", "p">>, <<".", "r", "b">>, <<".", "c", "s">>,
      <<".", "s", "w", "i", "f", "t">>, <<".", "k", "t">>,
      <<".", "s", "c", "a", "l", "a">>, <<".", "m", "d">>,
      <<".", "t", "x", "t">>, <<".", "j", "s", "o", "n">>,
      <<".", "y", "a", "m", "l">>, <<".", "y", "m", "l">>,
      <<".", "t", "o", "m", "l">>, <<".", "x", "m", "l">>,
      <<".", "h", "t", "m", "l">>, <<".", "c", "s", "s">> }

\* the directory names os.walk is told not to descend into (list_files)
WalkIgnore ==
    { <<"n", "o", "d", "e", "_", "m", "o", "d", "u", "l", "e", "s">>,
      <<"v", "e", "n", "v">>,
      <<"_", "_", "p", "y", "c", "a", "c", "h", "e", "_", "_">>,
      <<"d", "i", "s", "t">>,
      <<"b", "u", "i", "l", "d">> }

\* the entry names build_tree skips (get_file_structure)
TreeIgnore ==
    { <<"n", "o", "d", "e", "_", "m", "o", "d", "u", "l", "e", "s">>,
      <<"v", "e", "n", "v">>,
      <<"_", "_", "p", "y", "c", "a", "c", "h", "e", "_", "_">> }

\* os.walk reaches a file when no directory on the way was pruned
Walked(f) ==
    \A k \in 1..Len(f.dir) :
        ~StartsWith(f.dir[k], <<".">>) /\ f.dir[k] \notin WalkIgnore

\* the descriptor list_files appends for a file
Descriptor(f) ==
    [path |-> f.dir \o <<f.name>>,
     size |-> SumLen(f.lines),
     extension |-> Suffix(f.name),
     name |-> f.name]

RECURSIVE list_files(_, _)
\* FileSystemMCP.list_files
list_files(corpus, pattern) ==
    IF corpus = << >> THEN << >>
    ELSE LET f == Head(corpus)
         IN  (IF /\ Walked(f)
                 /\ fnmatch(f.name, pattern)
                 /\ Suffix(f.name) \in allowed_extensions
                 /\ f.stat
              THEN <<Descriptor(f)>>
              ELSE << >>) \o list_files(Tail(corpus), pattern)

\* FileSystemMCP._get_context: lines[max(0, n-3) : min(len, n+2)]
get_context(lines, line_num) ==
    LET start == IF line_num - 2 > 1 THEN line_num - 2 ELSE 1
        stop  == IF line_num + 2 < Len(lines) THEN line_num + 2 ELSE Len(lines)
    IN  SubSeq(lines, start, stop)

\* str.strip() of blanks and tabs
RECURSIVE LStrip(_)
LStrip(s) ==
    IF s # << >> /\ Head(s) \in {" ", "\t"} THEN LStrip(Tail(s)) ELSE s

RECURSIVE RStrip(_)
RStrip(s) ==
    IF s # << >> /\ s[Len(s)] \in {" ", "\t"}
    THEN RStrip(SubSeq(s, 1, Len(s) - 1)) ELSE s

Strip(s) == RStrip(LStrip(s))

\* the inner loop of search_in_files with the query compared as written,
\* without lower()
RECURSIVE LineMatchesCaseSensitive(_, _, _, _)
LineMatchesCaseSensitive(path, lines, query, n) ==
    IF n > Len(lines) THEN << >>
    ELSE (IF Contains(lines[n], query)
          THEN << [file |-> path, line |-> n,
                   content |-> Strip(lines[n]),
                   context |-> get_context(lines, n)] >>
          ELSE << >>) \o LineMatchesCaseSensitive(path, lines, query, n + 1)

\* the matches of one file: the inner loop of search_in_files
RECURSIVE LineMatches(_, _, _, _)
LineMatches(path, lines, query, n) ==
    IF n > Len(lines) THEN << >>
    ELSE (IF Contains(Lower(lines[n]), Lower(query))
          THEN << [file |-> path, line |-> n,
                   content |-> Strip(lines[n]),
                   context |-> get_context(lines, n)] >>
          ELSE << >>) \o LineMatches(path, lines, query, n + 1)

RECURSIVE SearchFiles(_, _, _)
\* the outer loop of search_in_files over the listed descriptors
SearchFiles(corpus, files, query) ==
    IF files = << >> THEN << >>
    ELSE LET file_data ==
                 read_file(corpus, [abs |-> FALSE, parts |-> Head(files).path])
         IN  (IF "content" \in DOMAIN file_data
              THEN LineMatches(Head(files).path, file_data.content, query, 1)
              ELSE << >>) \o SearchFiles(corpus, Tail(files), query)

\* FileSystemMCP.search_in_files
search_in_files(corpus, query, file_pattern) ==
    SearchFiles(corpus, list_files(corpus, file_pattern), query)

(***************************************************************************)
(* get_file_structure: the depth-bounded directory tree                    *)
(***************************************************************************)

\* the characters of entry names in code-point order (Python str comparison)
CodePoints ==
    << "-", ".", "0", "1", "2", "3", "4", "5", "6", "7", "8", "9",
       "A", "B", "C", "D", "E", "F", "G", "H", "I", "J", "K", "L", "M",
       "N", "O", "P", "Q", "R", "S", "T", "U", "V", "W", "X", "Y", "Z", "_",
       "a", "b", "c", "d", "e", "f", "g", "h", "i", "j", "k", "l", "m",
       "n", "o", "p", "q", "r", "s", "t", "u", "v", "w", "x", "y", "z" >>

Ord(c) == CHOOSE i \in 1..Len(CodePoints) : CodePoints[i] = c

\* a < b for Python strings
RECURSIVE StrLess(_, _)
StrLess(a, b) ==
    IF b = << >> THEN FALSE
    ELSE IF a = << >> THEN TRUE
    ELSE IF Head(a) = Head(b) THEN StrLess(Tail(a), Tail(b))
    ELSE Ord(Head(a)) < Ord(Head(b))

\* sorted(names)
RECURSIVE SortNames(_)
SortNames(names) ==
    IF names = {} THEN << >>
    ELSE LET m == CHOOSE x \in names : \A y \in names \ {x} : StrLess(x, y)
         IN  <<m>> \o SortNames(names \ {m})

\* max_depth of build_tree
max_depth == 3

\* the regular files directly inside directory d (Path.is_file holds)
FilesIn(corpus, d) ==
    {corpus[i].name : i \in {j \in 1..Len(corpus) :
                                corpus[j].dir = d /\ corpus[j].stat}}

\* the directories directly inside directory d
DirsIn(corpus, d) ==
    {corpus[i].dir[Len(d) + 1] :
        i \in {j \in 1..Len(corpus) :
                  /\ Len(corpus[j].dir) > Len(d)
                  /\ SubSeq(corpus[j].dir, 1, Len(d)) = d}}

\* "item.name.startswith('.') or item.name in [...]": the entry is skipped
TreeSkipped(name) == StartsWith(name, <<".">>) \/ name \in TreeIgnore

NoTree == [type |-> "none", children |-> << >>]

RECURSIVE SubTrees(_, _, _, _)
RECURSIVE build_tree(_, _, _)

\* the loop of build_tree over the sorted sub-directories
SubTrees(corpus, d, dirs, current_depth) ==
    IF dirs = << >> THEN << >>
    ELSE LET subtree ==
                 IF TreeSkipped(Head(dirs)) THEN NoTree
                 ELSE build_tree(corpus, d \o <<Head(dirs)>>, current_depth + 1)
         IN  (IF subtree.type # "none" /\ subtree.children # << >>
              THEN <<subtree>> ELSE << >>)
                 \o SubTrees(corpus, d, Tail(dirs), current_depth)

\* the file leaves of build_tree without the test of the extension
FileLeavesAnyExtension(files) ==
    LET kept == SelectSeq(files, LAMBDA n : ~TreeSkipped(n))
    IN  [i \in 1..Len(kept) |->
            [name |-> kept[i], type |-> "file", extension |-> Suffix(kept[i])]]

\* the file leaves of build_tree, in sorted order
FileLeaves(files) ==
    LET kept == SelectSeq(files, LAMBDA n :
                    ~TreeSkipped(n) /\ Suffix(n) \in allowed_extensions)
    IN  [i \in 1..Len(kept) |->
            [name |-> kept[i], type |-> "file", extension |-> Suffix(kept[i])]]

\* build_tree of FileSystemMCP.get_file_structure; items are sorted
\* directories first, then files, each by name
build_tree(corpus, d, current_depth) ==
    IF current_depth >= max_depth THEN NoTree
    ELSE [name |-> IF d = << >> THEN RepoPath[Len(RepoPath)] ELSE d[Len(d)],
          type |-> "directory",
          children |->
              SubTrees(corpus, d, SortNames(DirsIn(corpus, d)), current_depth)
                  \o FileLeaves(SortNames(FilesIn(corpus, d)))]

\* FileSystemMCP.get_file_structure
get_file_structure(corpus) == build_tree(corpus, << >>, 0)

(***************************************************************************)
(* CodeAnalyzerMCP                                                         *)
(*                                                                         *)
(* Formatted text (an f-string) is a sequence of pieces; a number is       *)
(* formatted by ToString.  Decorative glyphs of the messages are omitted.  *)
(***************************************************************************)

\* the line-length threshold of _detect_python_issues
MaxLineLength == 120

IsSpace(c) == c \in {" ", "\t"}

\* re.search(r'password\s*=\s*["\']', line, re.IGNORECASE)
HasPasswordLiteral(line) ==
    LET low == Lower(line)
        n   == Len(line)
    IN  \E i \in 1..n :
          /\ OccursAt(<<"p", "a", "s", "s", "w", "o", "r", "d">>, low, i)
          /\ \E j \in (i + 8)..n :
               /\ line[j] = "="
               /\ \A k \in (i + 8)..(j - 1) : IsSpace(line[k])
               /\ \E q \in (j + 1)..n :
                    /\ line[q] \in {"\"", "'"}
                    /\ \A k \in (j + 1)..(q - 1) : IsSpace(line[k])

\* the issues one line yields when the five if-statements are one
\* if/elif chain: the issue of the first rule that matches
LineIssuesFirstOnly(line, line_num) ==
    IF Contains(line, <<"e", "v", "a", "l", "(">>)
    THEN << [type |-> "security", severity |-> "high", line |-> line_num,
             message |-> <<"Use of eval() is dangerous">>,
             suggestion |-> <<"Consider using ast.literal_eval() or safer alternatives">>] >>
    ELSE IF Contains(line, <<"e", "x", "e", "c", "(">>)
    THEN << [type |-> "security", severity |-> "high", line |-> line_num,
             message |-> <<"Use of exec() is dangerous">>,
             suggestion |-> <<"Avoid dynamic code execution">>] >>
    ELSE IF HasPasswordLiteral(line)
    THEN << [type |-> "security", severity |-> "critical", line |-> line_num,
             message |-> <<"Hardcoded password detected">>,
             suggestion |-> <<"Use environment variables or secure secret management">>] >>
    ELSE IF \/ Contains(line, <<"T", "O", "D", "O">>)
            \/ Contains(line, <<"F", "I", "X", "M", "E">>)
    THEN << [type |-> "maintenance", severity |-> "low", line |-> line_num,
             message |-> <<"TODO/FIXME comment found">>,
             suggestion |-> <<"Address this comment or create a ticket">>] >>
    ELSE IF Len(line) > MaxLineLength
    THEN << [type |-> "style", severity |-> "low", line |-> line_num,
             message |-> <<"Line too long (", ToString(Len(line)),
                           " characters)">>,
             suggestion |-> <<"Break into multiple lines (PEP 8 recommends max 79-120)">>] >>
    ELSE << >>

\* the issues one line yields, in the order of the five if-statements
LineIssues(line, line_num) ==
    (IF Contains(line, <<"e", "v", "a", "l", "(">>)
     THEN << [type |-> "security", severity |-> "high", line |-> line_num,
              message |-> <<"Use of eval() is dangerous">>,
              suggestion |-> <<"Consider using ast.literal_eval() or safer alternatives">>] >>
     ELSE << >>)
    \o
    (IF Contains(line, <<"e", "x", "e", "c", "(">>)
     THEN << [type |-> "security", severity |-> "high", line |-> line_num,
              message |-> <<"Use of exec() is dangerous">>,
              suggestion |-> <<"Avoid dynamic code execution">>] >>
     ELSE << >>)
    \o
    (IF HasPasswordLiteral(line)
     THEN << [type |-> "security", severity |-> "critical", line |-> line_num,
              message |-> <<"Hardcoded password detected">>,
              suggestion |-> <<"Use environment variables or secure secret management">>] >>
     ELSE << >>)
    \o
    (IF \/ Contains(line, <<"T", "O", "D", "O">>)
        \/ Contains(line, <<"F", "I", "X", "M", "E">>)
     THEN << [type |-> "maintenance", severity |-> "low", line |-> line_num,
              message |-> <<"TODO/FIXME comment found">>,
              suggestion |-> <<"Address this comment or create a ticket">>] >>
     ELSE << >>)
    \o
    (IF Len(line) > MaxLineLength
     THEN << [type |-> "style", severity |-> "low", line |-> line_num,
              message |-> <<"Line too long (", ToString(Len(line)),
                            " characters)">>,
              suggestion |->
                  <<"Break into multiple lines (PEP 8 recommends max 79-120)">>] >>
     ELSE << >>)

RECURSIVE IssuesFromDeduplicated(_, _)
\* the loop of _detect_python_issues with an issue left out when the line
\* before yields an issue of the same message
IssuesFromDeduplicated(lines, n) ==
    IF n > Len(lines) THEN << >>
    ELSE LET before == IF n = 1 THEN << >> ELSE LineIssues(lines[n - 1], n - 1)
         IN  SelectSeq(LineIssues(lines[n], n),
                       LAMBDA x : \A i \in 1..Len(before) :
                                     before[i].message # x.message)
                 \o IssuesFromDeduplicated(lines, n + 1)

RECURSIVE IssuesFrom(_, _)
\* the loop "for line_num, line in enumerate(lines, 1)" from line n on
IssuesFrom(lines, n) ==
    IF n > Len(lines) THEN << >>
    ELSE LineIssues(lines[n], n) \o IssuesFrom(lines, n + 1)

\* CodeAnalyzerMCP._detect_python_issues
detect_python_issues(lines) == IssuesFrom(lines, 1)

\* the entries of analysis['functions']: ast.FunctionDef nodes only
FunctionEntries(nodes) ==
    LET fs == SelectSeq(nodes, LAMBDA n : n.kind = "FunctionDef")
    IN  [i \in 1..Len(fs) |->
            [name |-> fs[i].name, line |-> fs[i].line,
             args |-> fs[i].args, decorators |-> fs[i].decorators]]

\* the entries of analysis['classes']; methods counts the FunctionDef
\* statements of the class body
ClassEntries(nodes) ==
    LET cs == SelectSeq(nodes, LAMBDA n : n.kind = "ClassDef")
    IN  [i \in 1..Len(cs) |->
            [name |-> cs[i].name, line |-> cs[i].line,
             methods |-> Len(SelectSeq(cs[i].body,
                                       LAMBDA k : k = "FunctionDef"))]]

\* the entries of analysis['imports']: every alias of an Import, the module
\* of an ImportFrom
ImportEntries(nodes) ==
    LET im == SelectSeq(nodes, LAMBDA n : n.kind \in {"Import", "ImportFrom"})
    IN  Flatten([i \in 1..Len(im) |->
                    IF im[i].kind = "Import" THEN im[i].names
                    ELSE <<im[i].name>>])

\* analysis['metrics']: a key is left out when radon raises
Metrics(f) ==
    (IF f.cc.ok THEN [complexity |-> f.cc.blocks] ELSE << >>)
    @@
    (IF f.mi.ok THEN [maintainability_index |-> f.mi.value] ELSE << >>)

\* analyze_python_file with the issues of the lines before the failing line
\* kept in the result of a syntax error
analyze_python_file_partial(f, file_path) ==
    IF f.syntax # 0
    THEN [file |-> file_path, error |-> "Syntax error", line |-> f.syntax,
          issues |-> detect_python_issues(SubSeq(f.lines, 1, f.syntax - 1))]
    ELSE IF f.raises
    THEN [file |-> file_path, error |-> "exception"]
    ELSE [file |-> file_path,
          language |-> "python",
          metrics |-> Metrics(f),
          functions |-> FunctionEntries(f.nodes),
          classes |-> ClassEntries(f.nodes),
          imports |-> ImportEntries(f.nodes),
          issues |-> detect_python_issues(f.lines)]

\* CodeAnalyzerMCP.analyze_python_file on the content of file f: ast.parse
\* raises SyntaxError, raises another exception, or returns the tree
analyze_python_file(f, file_path) ==
    IF f.syntax # 0
    THEN [file |-> file_path, error |-> "Syntax error", line |-> f.syntax]
    ELSE IF f.raises
    THEN [file |-> file_path, error |-> "exception"]
    ELSE [file |-> file_path,
          language |-> "python",
          metrics |-> Metrics(f),
          functions |-> FunctionEntries(f.nodes),
          classes |-> ClassEntries(f.nodes),
          imports |-> ImportEntries(f.nodes),
          issues |-> detect_python_issues(f.lines)]

\* the complexity above which a block is reported (suggest_improvements)
ComplexityLimit == 10

\* the maintainability index below which the file is reported
MaintainabilityLimit == 20

\* the number of undocumented functions above which the file is reported
UndocumentedLimit == 3

\* "f.get('docstring')" is truthy
HasDocstring(fn) == "docstring" \in DOMAIN fn /\ fn.docstring # << >>

\* ', '.join(names)
RECURSIVE JoinComma(_)
JoinComma(names) ==
    IF names = << >> THEN << >>
    ELSE IF Len(names) = 1 THEN Head(names)
    ELSE Head(names) \o <<", ">> \o JoinComma(Tail(names))

\* CodeAnalyzerMCP.suggest_improvements
suggest_improvements(analysis) ==
    LET metrics == IF "metrics" \in DOMAIN analysis
                   THEN analysis.metrics ELSE << >>
        functions == IF "functions" \in DOMAIN analysis
                     THEN analysis.functions ELSE << >>
        high_complexity ==
            IF "complexity" \in DOMAIN metrics
            THEN SelectSeq(metrics.complexity,
                           LAMBDA item : item.complexity > ComplexityLimit)
            ELSE << >>
        functions_without_docs ==
            SelectSeq(functions, LAMBDA fn : ~HasDocstring(fn))
    IN  (IF high_complexity # << >>
         THEN << <<"Found ", ToString(Len(high_complexity)),
                   " functions with high complexity (>10). ",
                   "Consider refactoring: ">>
                 \o JoinComma([i \in 1..Len(Take(high_complexity, 3)) |->
                                  high_complexity[i].name]) >>
         ELSE << >>)
        \o
        (IF /\ "maintainability_index" \in DOMAIN metrics
            /\ metrics.maintainability_index < MaintainabilityLimit
         THEN << <<"Low maintainability index (",
                   ToString(metrics.maintainability_index), "). ",
                   "Consider refactoring for better code quality.">> >>
         ELSE << >>)
        \o
        (IF Len(functions_without_docs) > UndocumentedLimit
         THEN << <<ToString(Len(functions_without_docs)),
                   " functions lack docstrings. ",
                   "Add documentation for better maintainability.">> >>
         ELSE << >>)

(***************************************************************************)
(* CodeAssistantAgent: the search planner                                  *)
(***************************************************************************)

\* the plan of the authentication branch
AuthPlan ==
    [patterns |-> << <<"*", "a", "u", "t", "h", "*", ".", "p", "y">>,
                     <<"*", "l", "o", "g", "i", "n", "*", ".", "p", "y">> >>,
     keywords |-> << <<"a", "u", "t", "h">>,
                     <<"l", "o", "g", "i", "n">>,
                     <<"p", "a", "s", "s", "w", "o", "r", "d">>,
                     <<"t", "o", "k", "e", "n">> >>,
     file_types |-> << >>]

\* the plan of the database branch
DatabasePlan ==
    [patterns |-> << <<"*", "d", "b", "*", ".", "p", "y">>,
                     <<"*", "m", "o", "d", "e", "l", "*", ".", "p", "y">> >>,
     keywords |-> << <<"d", "b">>,
                     <<"d", "a", "t", "a", "b", "a", "s", "e">>,
                     <<"q", "u", "e", "r", "y">>,
                     <<"s", "q", "l">> >>,
     file_types |-> << >>]

\* the plan of the API branch
ApiPlan ==
    [patterns |-> << <<"*", "a", "p", "i", "*", ".", "p", "y">>,
                     <<"*", "r", "o", "u", "t", "e", "*", ".", "p", "y">>,
                     <<"*", "v", "i", "e", "w", "s", "*", ".", "p", "y">> >>,
     keywords |-> << <<"a", "p", "i">>,
                     <<"r", "o", "u", "t", "e">>,
                     <<"e", "n", "d", "p", "o", "i", "n", "t">>,
                     <<"@", "a", "p", "p">> >>,
     file_types |-> << >>]

\* the plan of the bug/error branch: keywords and file types, no pattern
BugPlan ==
    [patterns |-> << >>,
     keywords |-> << <<"e", "r", "r", "o", "r">>,
                     <<"e", "x", "c", "e", "p", "t", "i", "o", "n">>,
                     <<"t", "r", "y">>,
                     <<"e", "x", "c", "e", "p", "t">> >>,
     file_types |-> << <<".", "p", "y">>,
                       <<".", "j", "s">> >>]

\* the plan of the else branch ("General search")
GenericPlan ==
    [patterns |-> << <<"*", ".", "p", "y">>,
                     <<"*", ".", "j", "s">> >>,
     keywords |-> << >>,
     file_types |-> << >>]

\* the if/elif chain with the database test moved before the
\* authentication test
search_plan_swapped(user_query) ==
    LET q == Lower(user_query)
    IN  IF Contains(q, <<"d", "a", "t", "a", "b", "a", "s", "e">>)
           \/ Contains(q, <<"s", "q", "l">>)
        THEN DatabasePlan
        ELSE IF Contains(q, 
                        <<"a", "u", "t", "h", "e", "n", "t", "i", "c", "a", "t", "i", "o", "n">>)
                \/ Contains(q, <<"a", "u", "t", "h">>)
        THEN AuthPlan
        ELSE IF Contains(q, <<"a", "p", "i">>)
                \/ Contains(q, <<"e", "n", "d", "p", "o", "i", "n", "t">>)
        THEN ApiPlan
        ELSE IF Contains(q, <<"b", "u", "g">>)
                \/ Contains(q, <<"e", "r", "r", "o", "r">>)
        THEN BugPlan
        ELSE GenericPlan

\* CodeAssistantAgent.plan_search: the search_plan built from the query by
\* the if/elif chain over user_query.lower()
search_plan_of(user_query) ==
    LET q == Lower(user_query)
    IN  IF Contains(q, 
                        <<"a", "u", "t", "h", "e", "n", "t", "i", "c", "a", "t", "i", "o", "n">>)
           \/ Contains(q, <<"a", "u", "t", "h">>)
        THEN AuthPlan
        ELSE IF Contains(q, <<"d", "a", "t", "a", "b", "a", "s", "e">>)
                \/ Contains(q, <<"s", "q", "l">>)
        THEN DatabasePlan
        ELSE IF Contains(q, <<"a", "p", "i">>)
                \/ Contains(q, <<"e", "n", "d", "p", "o", "i", "n", "t">>)
        THEN ApiPlan
        ELSE IF Contains(q, <<"b", "u", "g">>)
                \/ Contains(q, <<"e", "r", "r", "o", "r">>)
        THEN BugPlan
        ELSE GenericPlan

(***************************************************************************)
(* GitHubMCP: the remote-repository collaborator                           *)
(*                                                                         *)
(* A URL is the sequence of its "/"-separated segments.  A response of the *)
(* GitHub API is [raises, status, items]: the request raised, or answered  *)
(* with a status and (for a search) a number of items.  An operation       *)
(* returns [raised, value]: raised is TRUE when an exception leaves it.    *)
(***************************************************************************)

\* the "[:10]" of search_code
MaxSearchItems == 10

\* the i-th item of a search response
SearchItem(i) ==
    [name |-> <<"file", ToString(i)>>,
     path |-> <<"src/file", ToString(i)>>,
     url |-> <<"https://github.com/blob/file", ToString(i)>>]

\* GitHubMCP.get_repo_info (public API path); parts[-2], parts[-1] raise
\* IndexError on a URL of one segment, inside the try
get_repo_info(repo_url, response) ==
    IF Len(repo_url) < 2 \/ response.raises
    THEN [raised |-> FALSE, value |-> [error |-> <<"exception">>]]
    ELSE IF response.status = 200
    THEN [raised |-> FALSE,
          value |-> [name |-> <<repo_url[Len(repo_url)]>>,
                     full_name |-> <<repo_url[Len(repo_url) - 1], "/",
                                     repo_url[Len(repo_url)]>>]]
    ELSE [raised |-> FALSE,
          value |-> [error |-> <<"Failed to fetch repo: ",
                                 ToString(response.status)>>]]

\* GitHubMCP.search_code without the try/except: the exception leaves
search_code_unguarded(query, repo_url, response) ==
    IF Len(repo_url) < 2 \/ response.raises
    THEN [raised |-> TRUE, value |-> << >>]
    ELSE IF response.status = 200
    THEN [raised |-> FALSE,
          value |-> [i \in 1..(IF response.items < MaxSearchItems
                               THEN response.items ELSE MaxSearchItems)
                        |-> SearchItem(i)]]
    ELSE [raised |-> FALSE,
          value |-> << [error |-> <<"Search failed: ",
                                    ToString(response.status)>>] >>]

\* GitHubMCP.search_code
search_code(query, repo_url, response) ==
    IF Len(repo_url) < 2 \/ response.raises
    THEN [raised |-> FALSE, value |-> << [error |-> <<"exception">>] >>]
    ELSE IF response.status = 200
    THEN [raised |-> FALSE,
          value |-> [i \in 1..(IF response.items < MaxSearchItems
                               THEN response.items ELSE MaxSearchItems)
                        |-> SearchItem(i)]]
    ELSE [raised |-> FALSE,
          value |-> << [error |-> <<"Search failed: ",
                                    ToString(response.status)>>] >>]

(***************************************************************************)
(* CodeAssistantAgent: the stages                                          *)
(*                                                                         *)
(* A stage is a function from the state dict it is handed to the state     *)
(* dict it returns (the same dict, mutated).                               *)
(***************************************************************************)

AIMessage(content) == [type |-> "ai", content |-> content]

\* str(rel_path): the components joined by "/"
RECURSIVE PathStr(_)
PathStr(path) ==
    IF path = << >> THEN << >>
    ELSE IF Len(path) = 1 THEN Head(path)
    ELSE Head(path) \o <<"/">> \o PathStr(Tail(path))

\* the slice bounds of execute_search
MaxPatterns == 5
MaxFilesPerPattern == 10
MaxKeywords == 3
MaxMatchesPerKeyword == 20

\* the slice bound of analyze_code
MaxAnalyzedFiles == 5

\* the slice bounds of _prepare_context
MaxContextFiles == 10
MaxContextSuggestions == 5

\* the pattern execute_search passes to search_in_files
PyPattern == <<"*", ".", "p", "y">>

\* CodeAssistantAgent.understand_query (the LLM's answer is not used)
understand_query(state) ==
    [state EXCEPT
        !.current_step = "Understanding query",
        !.messages = Append(@, AIMessage(<<"Analyzing your question: ">>
                                            \o state.user_query))]

\* CodeAssistantAgent.plan_search
plan_search(state) ==
    LET search_plan == search_plan_of(state.user_query)
    IN  [state EXCEPT
            !.analysis_results = [search_plan |-> search_plan],
            !.current_step = "Planning search",
            !.messages = Append(@, AIMessage(
                <<"Planning to search: ">>
                    \o JoinComma(Take(search_plan.patterns, 3))))]

\* "results['files'].extend(files)": every listed descriptor is kept
KeepAllFiles(files) == files

\* "results['files'].extend(files[:10])"
KeepFiles(files) == Take(files, MaxFilesPerPattern)

\* "results['matches'].extend(matches[:20])"
KeepMatches(matches) == Take(matches, MaxMatchesPerKeyword)

\* the local branch of execute_search with the file structure fetched only
\* when neither a file nor a match was found
LocalSearchLastResort(corpus, search_plan) ==
    LET patterns == Take(search_plan.patterns, MaxPatterns)
        listed   == [i \in 1..Len(patterns) |-> list_files(corpus, patterns[i])]
        keywords == Take(search_plan.keywords, MaxKeywords)
        found    == [i \in 1..Len(keywords) |->
                        search_in_files(corpus, keywords[i], PyPattern)]
        files    == Flatten([i \in 1..Len(patterns) |->
                                KeepFiles(listed[i])])
        matches  == Flatten([i \in 1..Len(keywords) |->
                                KeepMatches(found[i])])
    IN  [raised |-> FALSE,
         results |->
            [files |-> files, matches |-> matches]
                @@ (IF files = << >> /\ matches = << >>
                    THEN [structure |-> get_file_structure(corpus)]
                    ELSE << >>),
         calls |->
            [i \in 1..Len(patterns) |->
                [op |-> "list_files", arg |-> patterns[i],
                 found |-> Len(listed[i]),
                 kept |-> Len(KeepFiles(listed[i]))]]
            \o
            [i \in 1..Len(keywords) |->
                [op |-> "search_in_files", arg |-> keywords[i],
                 found |-> Len(found[i]),
                 kept |-> Len(KeepMatches(found[i]))]]
            \o
            (IF files = << >> /\ matches = << >>
             THEN << [op |-> "get_file_structure", arg |-> << >>,
                      found |-> 0, kept |-> 0] >>
             ELSE << >>)]

\* the local branch of execute_search: [raised, results, calls]
LocalSearch(corpus, search_plan) ==
    LET patterns == Take(search_plan.patterns, MaxPatterns)
        listed   == [i \in 1..Len(patterns) |-> list_files(corpus, patterns[i])]
        keywords == Take(search_plan.keywords, MaxKeywords)
        found    == [i \in 1..Len(keywords) |->
                        search_in_files(corpus, keywords[i], PyPattern)]
        files    == Flatten([i \in 1..Len(patterns) |->
                                KeepFiles(listed[i])])
        matches  == Flatten([i \in 1..Len(keywords) |->
                                KeepMatches(found[i])])
    IN  [raised |-> FALSE,
         results |->
            [files |-> files, matches |-> matches]
                @@ (IF files = << >>
                    THEN [structure |-> get_file_structure(corpus)]
                    ELSE << >>),
         calls |->
            [i \in 1..Len(patterns) |->
                [op |-> "list_files", arg |-> patterns[i],
                 found |-> Len(listed[i]),
                 kept |-> Len(KeepFiles(listed[i]))]]
            \o
            [i \in 1..Len(keywords) |->
                [op |-> "search_in_files", arg |-> keywords[i],
                 found |-> Len(found[i]),
                 kept |-> Len(KeepMatches(found[i]))]]
            \o
            (IF files = << >>
             THEN << [op |-> "get_file_structure", arg |-> << >>,
                      found |-> 0, kept |-> 0] >>
             ELSE << >>)]

\* the remote branch of execute_search: [raised, results, calls];
\* responses[1] answers get_repo_info, responses[i + 1] the i-th search_code
RemoteSearch(github_url, search_plan, responses) ==
    LET keywords  == Take(search_plan.keywords, MaxKeywords)
        repo_info == get_repo_info(github_url, responses[1])
        found     == [i \in 1..Len(keywords) |->
                         search_code(keywords[i], github_url, responses[i + 1])]
    IN  [raised |-> repo_info.raised
                      \/ \E i \in 1..Len(keywords) : found[i].raised,
         results |->
            [files |-> << >>,
             matches |-> Flatten([i \in 1..Len(keywords) |-> found[i].value]),
             repo_info |-> repo_info.value],
         calls |->
            << [op |-> "get_repo_info", arg |-> github_url,
                found |-> 0, kept |-> 0] >>
            \o
            [i \in 1..Len(keywords) |->
                [op |-> "search_code", arg |-> keywords[i],
                 found |-> Len(found[i].value),
                 kept |-> Len(found[i].value)]]]

\* the if/elif of execute_search with the two tests exchanged: the GitHub
\* URL is consulted before the local accessor
SearchBranchUrlFirst(has_fs, github_url) ==
    IF github_url # << >> THEN "remote"
    ELSE IF has_fs THEN "local"
    ELSE "none"

\* "if self.fs_mcp: ... elif self.github_url: ..." of execute_search
SearchBranch(has_fs, github_url) ==
    IF has_fs THEN "local"
    ELSE IF github_url # << >> THEN "remote"
    ELSE "none"

\* the searching part of execute_search: [raised, results, calls]
Search(corpus, has_fs, github_url, search_plan, responses) ==
    LET branch == SearchBranch(has_fs, github_url)
    IN  IF branch = "local" THEN LocalSearch(corpus, search_plan)
        ELSE IF branch = "remote"
        THEN RemoteSearch(github_url, search_plan, responses)
        ELSE [raised |-> FALSE,
              results |-> [files |-> << >>, matches |-> << >>],
              calls |-> << >>]

\* CodeAssistantAgent.execute_search, given what the search produced
execute_search(state, results) ==
    [state EXCEPT
        !.analysis_results = [search_results |-> results] @@ @,
        !.current_step = "Executing search",
        !.messages = Append(@, AIMessage(
            <<"Found ", ToString(Len(results.files)), " files, ",
              ToString(Len(results.matches)), " code matches">>))]

\* the contribution of one file descriptor to analyze_code:
\* [analyses, issues, suggestions]
AnalyzeOne(corpus, file_info) ==
    LET file_data == read_file(corpus, [abs |-> FALSE, parts |-> file_info.path])
    IN  IF /\ "content" \in DOMAIN file_data
           /\ EndsWith(file_info.path[Len(file_info.path)], <<".", "p", "y">>)
        THEN LET file_analysis ==
                     analyze_python_file(
                         FileAt(corpus, RepoPath \o file_info.path),
                         file_info.path)
             IN  [analyses |-> <<file_analysis>>,
                  issues |-> IF "issues" \in DOMAIN file_analysis
                             THEN file_analysis.issues ELSE << >>,
                  suggestions |-> suggest_improvements(file_analysis)]
        ELSE [analyses |-> << >>, issues |-> << >>, suggestions |-> << >>]

\* the loop "for file_info in ...[:5]" of analyze_code over the given files
RECURSIVE AnalyzeFiles(_, _)
AnalyzeFiles(corpus, files) ==
    IF files = << >>
    THEN [file_analyses |-> << >>, issues |-> << >>, suggestions |-> << >>]
    ELSE LET one  == AnalyzeOne(corpus, Head(files))
             rest == AnalyzeFiles(corpus, Tail(files))
         IN  [file_analyses |-> one.analyses \o rest.file_analyses,
              issues |-> one.issues \o rest.issues,
              suggestions |-> one.suggestions \o rest.suggestions]

\* the descriptors analyze_code walks over, every one of search_results
CandidatesUnbounded(has_fs, search_results) ==
    IF has_fs /\ "files" \in DOMAIN search_results
    THEN search_results.files
    ELSE << >>

\* the descriptors analyze_code walks over:
\* "if self.fs_mcp: for file_info in search_results.get('files', [])[:5]"
Candidates(has_fs, search_results) ==
    IF has_fs /\ "files" \in DOMAIN search_results
    THEN Take(search_results.files, MaxAnalyzedFiles)
    ELSE << >>

\* analyze_code cutting the file list of the search results down to the
\* files it analyzes
analyze_code_trimming(state, corpus, has_fs) ==
    LET search_results == state.analysis_results.search_results
        analysis == AnalyzeFiles(corpus, Candidates(has_fs, search_results))
    IN  [state EXCEPT
            !.analysis_results =
                [code_analysis |-> analysis,
                 search_results |->
                     [search_results EXCEPT
                         !.files = Candidates(has_fs, search_results)]] @@ @,
            !.current_step = "Analyzing code",
            !.messages = Append(@, AIMessage(
                <<"Analysis complete. Found ", ToString(Len(analysis.issues)),
                  " potential issues">>))]

\* CodeAssistantAgent.analyze_code
analyze_code(state, corpus, has_fs) ==
    LET search_results == state.analysis_results.search_results
        analysis == AnalyzeFiles(corpus, Candidates(has_fs, search_results))
    IN  [state EXCEPT
            !.analysis_results = [code_analysis |-> analysis] @@ @,
            !.current_step = "Analyzing code",
            !.messages = Append(@, AIMessage(
                <<"Analysis complete. Found ", ToString(Len(analysis.issues)),
                  " potential issues">>))]

\* the severities of the issues in order of first occurrence (the insertion
\* order of the dict issues_summary)
RECURSIVE SeverityOrder(_, _)
SeverityOrder(issues, seen) ==
    IF issues = << >> THEN << >>
    ELSE LET severity == IF "severity" \in DOMAIN Head(issues)
                         THEN Head(issues).severity ELSE "unknown"
         IN  IF severity \in seen
             THEN SeverityOrder(Tail(issues), seen)
             ELSE <<severity>>
                      \o SeverityOrder(Tail(issues), seen \cup {severity})

\* issues_summary built with "issues_summary[severity] = position" instead
\* of a count: severity -> position of its last issue
issues_summary_positions(issues) ==
    LET keys == SeverityOrder(issues, {})
        sev(i) == IF "severity" \in DOMAIN issues[i]
                  THEN issues[i].severity ELSE "unknown"
    IN  [k \in {keys[i] : i \in 1..Len(keys)} |->
            CHOOSE i \in 1..Len(issues) :
                sev(i) = k /\ \A j \in (i + 1)..Len(issues) : sev(j) # k]

\* issues_summary of _prepare_context: severity -> number of issues
issues_summary(issues) ==
    LET keys == SeverityOrder(issues, {})
    IN  [k \in {keys[i] : i \in 1..Len(keys)} |->
            Cardinality({i \in 1..Len(issues) :
                (IF "severity" \in DOMAIN issues[i]
                 THEN issues[i].severity ELSE "unknown") = k})]

\* str(issues_summary): the entries in insertion order
RECURSIVE DictStr(_, _)
DictStr(keys, dict) ==
    IF keys = << >> THEN << >>
    ELSE <<"'", Head(keys), "': ", ToString(dict[Head(keys)])>>
             \o (IF Len(keys) > 1 THEN <<", ">> ELSE << >>)
             \o DictStr(Tail(keys), dict)

\* CodeAssistantAgent._prepare_context: the lines of the context
prepare_context(analysis) ==
    (IF "search_results" \in DOMAIN analysis
     THEN LET results == analysis.search_results
              files == IF "files" \in DOMAIN results
                       THEN results.files ELSE << >>
              matches == IF "matches" \in DOMAIN results
                         THEN results.matches ELSE << >>
          IN  << <<"Files found: ", ToString(Len(files))>>,
                 <<"Code matches: ", ToString(Len(matches))>> >>
              \o (IF files # << >>
                  THEN << <<"Relevant files: ">>
                          \o JoinComma([i \in 1..Len(Take(files, MaxContextFiles))
                                           |-> PathStr(files[i].path)]) >>
                  ELSE << >>)
     ELSE << >>)
    \o
    (IF "code_analysis" \in DOMAIN analysis
     THEN LET code_analysis == analysis.code_analysis
          IN  (IF code_analysis.issues # << >>
               THEN << <<"Issues by severity: {">>
                       \o DictStr(SeverityOrder(code_analysis.issues, {}),
                                  issues_summary(code_analysis.issues))
                       \o <<"}">> >>
               ELSE << >>)
              \o
              (IF code_analysis.suggestions # << >>
               THEN << <<"Suggestions:">> >>
                    \o Take(code_analysis.suggestions, MaxContextSuggestions)
               ELSE << >>)
     ELSE << >>)

\* the text the LLM answers with
LLMAnswer == <<"answer">>

\* CodeAssistantAgent.generate_response
generate_response(state) ==
    [state EXCEPT
        !.current_step = "Response generated",
        !.messages = Append(@, AIMessage(LLMAnswer))]

(***************************************************************************)
(* The inputs: corpora, agents, queries, responses of the GitHub API       *)
(***************************************************************************)

\* a readable, parseable text file without definitions
TextFile(dir, name, lines) ==
    [dir |-> dir, name |-> name, stat |-> TRUE, data |-> "text",
     lines |-> lines, syntax |-> 0, raises |-> FALSE, nodes |-> << >>,
     cc |-> [ok |-> TRUE, blocks |-> << >>],
     mi |-> [ok |-> TRUE, value |-> 100]]

\* an ast.FunctionDef node
FunctionNode(name, line, args) ==
    [kind |-> "FunctionDef", name |-> name, line |-> line, args |-> args,
     decorators |-> 0, body |-> << >>, names |-> << >>,
     depth |-> 0, doc |-> FALSE]

\* an ast.Import node
ImportNode(names) ==
    [kind |-> "Import", name |-> << >>, line |-> 1, args |-> 0,
     decorators |-> 0, body |-> << >>, names |-> names,
     depth |-> 0, doc |-> FALSE]

\* an entry of radon's cc_visit
Block(name, complexity, line) ==
    [name |-> name, complexity |-> complexity, line |-> line]

\* the number of files of BigRepo
BigFiles == 11

\* the number of items a successful code search may carry
MaxRemoteItems == 1

\* the number of queries sent to one agent
MaxRuns == 1

\* a repository without any entry
EmptyRepo == << >>

\* a repository without any file of an allow-listed extension
BareRepo ==
    << TextFile(<< >>,
             <<"R", "E", "A", "D", "M", "E">>,
             << <<"a", "u", "t", "h">> >>),
       [TextFile(<< <<"a", "s", "s", "e", "t", "s">> >>,
             <<"l", "o", "g", "o", ".", "p", "n", "g">>,
             << >>)
            EXCEPT !.data = "binary"],
       TextFile(<< <<".", "g", "i", "t">> >>,
             <<"c", "o", "n", "f", "i", "g">>,
             << <<"[", "c", "o", "r", "e", "]">> >>),
       [TextFile(<< <<"b", "i", "n">> >>,
             <<"t", "o", "o", "l", ".", "e", "x", "e">>,
             << >>)
            EXCEPT !.data = "binary"] >>

\* a repository with readable, unreadable and unparseable files
DemoRepo ==
    << [TextFile(<< >>,
             <<"a", "u", "t", "h", ".", "p", "y">>,
             << <<"p", "a", "s", "s", "w", "o", "r", "d", " ", "=", " ", "\"", "h", "u", "n", "t", "e", "r", "2", "\"">>,
                <<"d", "e", "f", " ", "l", "o", "g", "i", "n", "(", "u", "s", "e", "r", ")", ":">>,
                <<" ", " ", " ", " ", "r", "e", "t", "u", "r", "n", " ", "u", "s", "e", "r">> >>)
            EXCEPT !.nodes = << FunctionNode(<<"l", "o", "g", "i", "n">>, 2, 1) >>,
                   !.cc = [ok |-> TRUE, blocks |-> << Block(<<"l", "o", "g", "i", "n">>, 1, 2) >>]],
       [TextFile(<< >>,
             <<"o", "a", "u", "t", "h", ".", "p", "y">>,
             << >>)
            EXCEPT !.data = "binary"],
       [TextFile(<< >>,
             <<"a", "u", "t", "h", "_", "o", "l", "d", ".", "p", "y">>,
             << <<"x", " ", "=", " ", "e", "v", "a", "l", "(", "i", "n", "p", "u", "t", "(", ")", ")">>,
                <<"d", "e", "f", " ", "b", "r", "o", "k", "e", "n", "(", ":">>,
                <<"#", " ", "T", "O", "D", "O", " ", "f", "i", "x">> >>)
            EXCEPT !.syntax = 2],
       [TextFile(<< >>,
             <<"l", "o", "g", "i", "n", ".", "p", "y">>,
             << <<"#", " ", "T", "O", "D", "O", " ", "t", "o", "k", "e", "n", " ", "c", "h", "e", "c", "k">>,
                <<"d", "e", "f", " ", "a", "(", ")", ":", " ", "p", "a", "s", "s">>,
                <<"d", "e", "f", " ", "b", "(", ")", ":", " ", "p", "a", "s", "s">>,
                <<"d", "e", "f", " ", "c", "(", ")", ":", " ", "p", "a", "s", "s">>,
                <<"d", "e", "f", " ", "d", "(", ")", ":", " ", "p", "a", "s", "s">> >>)
            EXCEPT !.nodes = << FunctionNode(<<"a">>, 2, 0), FunctionNode(<<"b">>, 3, 0),
                               FunctionNode(<<"c">>, 4, 0), FunctionNode(<<"d">>, 5, 0) >>,
                   !.cc = [ok |-> TRUE, blocks |-> << Block(<<"a">>, 11, 2), Block(<<"b">>, 10, 3) >>],
                   !.mi = [ok |-> TRUE, value |-> 19]],
       [TextFile(<< >>,
             <<"l", "o", "c", "k", "e", "d", "_", "l", "o", "g", "i", "n", ".", "p", "y">>,
             << <<"t", "o", "k", "e", "n", " ", "=", " ", "1">> >>)
            EXCEPT !.data = "denied"],
       TextFile(<< >>,
             <<"R", "E", "A", "D", "M", "E", ".", "m", "d">>,
             << <<"a", "u", "t", "h", " ", "d", "o", "c", "s">> >>),
       TextFile(<< >>,
             <<"n", "o", "t", "e", "s">>,
             << <<"l", "o", "g", "i", "n", " ", "n", "o", "t", "e", "s">> >>),
       [TextFile(<< <<"p", "k", "g">> >>,
             <<"a", "p", "i", ".", "p", "y">>,
             << <<"@", "a", "p", "p", ".", "r", "o", "u", "t", "e", "(", "\"", "/", "a", "p", "i", "\"", ")">>,
                <<"e", "x", "e", "c", "(", "c", "m", "d", ")", " ", " ", "#", " ", "F", "I", "X", "M", "E">> >>)
            EXCEPT !.cc = [ok |-> FALSE, blocks |-> << >>],
                   !.mi = [ok |-> FALSE, value |-> 0]],
       TextFile(<< <<"p", "k", "g">> >>,
             <<"d", "b", ".", "p", "y">>,
             << <<"q", "u", "e", "r", "y", " ", "=", " ", "\"", "s", "e", "l", "e", "c", "t", " ", "1", "\"", " ", " ", "#", " ", "s", "q", "l">> >>),
       TextFile(<< <<"p", "k", "g">> >>,
             <<"r", "o", "u", "t", "e", "s", ".", "j", "s">>,
             << <<"/", "/", " ", "a", "p", "i", " ", "r", "o", "u", "t", "e">> >>),
       TextFile(<< <<".", "h", "i", "d", "d", "e", "n">> >>,
             <<"a", "u", "t", "h", "_", "x", ".", "p", "y">>,
             << <<"a", "u", "t", "h", " ", "=", " ", "e", "v", "a", "l", "(", "x", ")">> >>),
       TextFile(<< <<"n", "o", "d", "e", "_", "m", "o", "d", "u", "l", "e", "s">> >>,
             <<"a", "u", "t", "h", "_", "l", "i", "b", ".", "p", "y">>,
             << <<"a", "u", "t", "h", " ", "=", " ", "1">> >>),
       TextFile(<< <<"d", "i", "s", "t">> >>,
             <<"l", "o", "g", "i", "n", "_", "d", "i", "s", "t", ".", "p", "y">>,
             << <<"l", "o", "g", "i", "n", " ", "=", " ", "1">> >>) >>

\* a repository of several languages
MixedRepo ==
    << [TextFile(<< >>,
             <<"m", "a", "i", "n", ".", "p", "y">>,
             << <<"i", "m", "p", "o", "r", "t", " ", "o", "s">>,
                <<"t", "r", "y", ":">>,
                <<" ", " ", " ", " ", "r", "u", "n", "(", ")">>,
                <<"e", "x", "c", "e", "p", "t", " ", "E", "x", "c", "e", "p", "t", "i", "o", "n", ":", " ", "r", "a", "i", "s", "e">> >>)
            EXCEPT !.nodes = << ImportNode(<< <<"o", "s">> >>) >>],
       TextFile(<< >>,
             <<"a", "p", "p", ".", "j", "s">>,
             << <<"/", "/", " ", "e", "r", "r", "o", "r", " ", "h", "a", "n", "d", "l", "e", "r">> >>),
       TextFile(<< >>,
             <<"u", "t", "i", "l", ".", "t", "s">>,
             << <<"e", "x", "p", "o", "r", "t", " ", "{", "}">> >>),
       TextFile(<< >>,
             <<"R", "E", "A", "D", "M", "E", ".", "m", "d">>,
             << <<"d", "a", "t", "a", "b", "a", "s", "e", " ", "n", "o", "t", "e", "s">> >>),
       TextFile(<< <<"s", "r", "c">> >>,
             <<"v", "i", "e", "w", "s", ".", "p", "y">>,
             << <<"#", " ", "e", "n", "d", "p", "o", "i", "n", "t", " ", "v", "i", "e", "w", "s">> >>),
       TextFile(<< <<"s", "r", "c">> >>,
             <<"m", "o", "d", "e", "l", "_", "u", "s", "e", "r", ".", "p", "y">>,
             << <<"d", "b", " ", "=", " ", "N", "o", "n", "e", " ", " ", "#", " ", "d", "a", "t", "a", "b", "a", "s", "e", " ", "m", "o", "d", "e", "l">> >>),
       TextFile(<< <<"b", "u", "i", "l", "d">> >>,
             <<"o", "u", "t", ".", "j", "s">>,
             << <<"v", "a", "r", " ", "a", "p", "i">> >>) >>

\* a repository of BigFiles files auth_a.py, auth_b.py, ..., each with an
\* issue and two lines that mention "auth"
BigRepo ==
    [i \in 1..BigFiles |->
        TextFile(<< >>,
                 <<"a", "u", "t", "h", "_", LowerAlpha[i], ".", "p", "y">>,
                 << <<"#", " ", "T", "O", "D", "O", " ", "a", "u", "t", "h">>,
                    <<"a", "u", "t", "h", " ", "=", " ", "t", "o", "k", "e", "n">> >>)]

Corpora == {EmptyRepo, BareRepo, DemoRepo, MixedRepo, BigRepo}

\* the URL https://github.com/owner/repo split at "/"
RepoUrl == <<"https:", "", "github.com", "owner", "repo">>

\* the agents api.py creates (ZIP upload: local path only; GitHub upload:
\* local path and URL), and an agent created with a URL only
Agents ==
    {[corpus |-> c, has_fs |-> TRUE, github_url |-> u] :
        c \in Corpora, u \in {<< >>, RepoUrl}}
    \cup {[corpus |-> EmptyRepo, has_fs |-> FALSE, github_url |-> RepoUrl]}

Queries ==
    { <<"H", "o", "w", " ", "d", "o", "e", "s", " ", "a", "u", "t", "h", "e", "n", "t", "i", "c", "a", "t", "i", "o", "n", " ", "w", "o", "r", "k", "?">>,
      <<"A", "U", "T", "H", " ", "f", "l", "o", "w">>,
      <<"s", "q", "l", " ", "f", "o", "r", " ", "a", "u", "t", "h", "o", "r">>,
      <<"D", "a", "t", "a", "b", "a", "s", "e", " ", "s", "c", "h", "e", "m", "a">>,
      <<"l", "i", "s", "t", " ", "A", "P", "I", " ", "e", "n", "d", "p", "o", "i", "n", "t", "s">>,
      <<"d", "e", "b", "u", "g", " ", "t", "h", "e", " ", "a", "p", "i">>,
      <<"f", "i", "n", "d", " ", "b", "u", "g", "s">>,
      <<"E", "r", "r", "o", "r", " ", "h", "a", "n", "d", "l", "i", "n", "g">>,
      <<"e", "x", "p", "l", "a", "i", "n", " ", "t", "h", "e", " ", "c", "o", "d", "e">>,
      <<>> }

\* what the GitHub API may answer to a code search: the request raises, is
\* refused, or succeeds with some items
Responses ==
    {[raises |-> TRUE, status |-> 0, items |-> 0],
     [raises |-> FALSE, status |-> 403, items |-> 0]}
    \cup {[raises |-> FALSE, status |-> 200, items |-> n] :
              n \in 0..MaxRemoteItems}

\* what the GitHub API may answer to a repository request
RepoResponses == {r \in Responses : r.items = 0}

(***************************************************************************)
(* The graph and a run of it                                               *)
(***************************************************************************)

VARIABLES
    agent,      \* the CodeAssistantAgent of the session: corpus, has_fs, github_url
    aliased,    \* the graph runtime hands a stage the channel's own list object
    runs,       \* the number of calls of run so far
    phase,      \* "idle", or "running" inside graph.invoke
    active,     \* the nodes the graph has scheduled
    trace,      \* the nodes executed by this run, in order
    state,      \* the channel values of the graph (AgentState)
    calls,      \* the accessor and collaborator calls of this run, in order
    responses,  \* the answers the GitHub API gave in this run
    context,    \* the evidence handed to the LLM by generate_response
    raised,     \* an exception left a stage
    returned,   \* what the last call of run answered
    read_request,   \* the path of the last read_file request made directly
    read_result,    \* what read_file returned for it
    call,       \* a direct call of an accessor or analyzer operation
    result,     \* what that operation returned
    parked      \* the run of another query on the same agent, between stages

\* the variables of a run of the pipeline
run_vars ==
    << runs, phase, active, trace, state, calls, responses, context, raised,
       returned >>

\* the variables of a direct use of the accessor
reader_vars == << read_request, read_result >>

\* the variables of a direct call of another operation
call_vars == << call, result >>

VARIABLES
    sessions,   \* api.py sessions: session id -> the agent of the session
    temp_dirs,  \* api.py temp_dirs: session id -> temporary directory
    dirs,       \* the temporary directories that exist on disk
    uploading,  \* the directories of the upload_zip requests that wait in
                \* "await file.read()"
    deleted,    \* the session ids delete_session removed from sessions
    reply       \* the response of the request that ended in the last step,
                \* NoReply when the step ended in an await

\* the variables of the REST API
api_vars == << sessions, temp_dirs, dirs, uploading, deleted, reply >>

vars == << agent, aliased, run_vars, reader_vars, call_vars, parked, api_vars >>

NoReply == [op |-> "none"]

\* the REST API right after the module was loaded
ApiAtRest ==
    /\ sessions = << >>
    /\ temp_dirs = << >>
    /\ dirs = {}
    /\ uploading = {}
    /\ deleted = {}
    /\ reply = NoReply

NoCall == [op |-> "none"]

\* the local variables of a call of run before graph.invoke
NoRun ==
    [phase |-> "idle", active |-> {}, trace |-> << >>,
     state |-> [messages |-> << >>, repo_path |-> << >>, github_url |-> << >>,
                current_step |-> "start", analysis_results |-> << >>,
                user_query |-> << >>],
     calls |-> << >>, responses |-> << >>, context |-> << >>,
     raised |-> FALSE, returned |-> [status |-> 0, messages |-> << >>]]

NoRequest == [abs |-> FALSE, parts |-> << >>]

NoResult == [none |-> TRUE]

\* workflow.add_node
Nodes ==
    {"understand_query", "plan_search", "execute_search", "analyze_code",
     "generate_response"}

\* workflow.set_entry_point
EntryPoint == "understand_query"

\* the edges of _build_graph with an edge from analyze_code back to
\* plan_search added
EdgesWithRetry ==
    {<<"understand_query", "plan_search">>,
     <<"plan_search", "execute_search">>,
     <<"execute_search", "analyze_code">>,
     <<"analyze_code", "generate_response">>,
     <<"analyze_code", "plan_search">>,
     <<"generate_response", "END">>}

\* workflow.add_edge
Edges ==
    {<<"understand_query", "plan_search">>,
     <<"plan_search", "execute_search">>,
     <<"execute_search", "analyze_code">>,
     <<"analyze_code", "generate_response">>,
     <<"generate_response", "END">>}

\* the nodes scheduled after node n ran
Successors(n) == {m \in Nodes : <<n, m>> \in Edges}

\* initial_state of run taking the message trail and the payload from the
\* state the agent's last run left
initial_state_shared(user_query) ==
    [messages |-> state.messages,
     repo_path |-> IF agent.has_fs THEN RepoPath ELSE << >>,
     github_url |-> agent.github_url,
     current_step |-> "start",
     analysis_results |-> state.analysis_results,
     user_query |-> user_query]

\* initial_state of run
initial_state(user_query) ==
    [messages |-> << >>,
     repo_path |-> IF agent.has_fs THEN RepoPath ELSE << >>,
     github_url |-> agent.github_url,
     current_step |-> "start",
     analysis_results |-> << >>,
     user_query |-> user_query]

\* the reducer of the messages channel: Annotated[List, operator.add]
operator_add(channel, update) == channel \o update

\* the channel values after a stage returned the state dict out.  Every key
\* of out is written to its channel: messages through its reducer, the
\* others by replacement.  The stage appended to the list it was handed; when
\* that list is the channel's own object the channel already holds the
\* appended message when the reducer runs.
ApplyWrites(out) ==
    [out EXCEPT
        !.messages = operator_add(IF aliased THEN out.messages
                                  ELSE state.messages,
                                  out.messages)]

Init ==
    /\ agent \in Agents
    /\ aliased \in BOOLEAN
    /\ runs = 0
    /\ phase = "idle"
    /\ active = {}
    /\ trace = << >>
    /\ state = [messages |-> << >>, repo_path |-> << >>, github_url |-> << >>,
                current_step |-> "start", analysis_results |-> << >>,
                user_query |-> << >>]
    /\ calls = << >>
    /\ responses = << >>
    /\ context = << >>
    /\ raised = FALSE
    /\ returned = [status |-> 0, messages |-> << >>]
    /\ read_request = NoRequest
    /\ read_result = NoResult
    /\ call = NoCall
    /\ result = NoResult
    /\ parked = NoRun
    /\ ApiAtRest

\* CodeAssistantAgent.run up to graph.invoke, the agent being asked at most
\* limit queries out of the given ones
Start(limit, queries) ==
    /\ phase = "idle"
    /\ runs < limit
    /\ \E q \in queries : state' = initial_state(q)
    /\ runs' = runs + 1
    /\ phase' = "running"
    /\ active' = {EntryPoint}
    /\ trace' = << >>
    /\ calls' = << >>
    /\ responses' = << >>
    /\ context' = << >>
    /\ raised' = FALSE
    /\ returned' = [status |-> 0, messages |-> << >>]
    /\ UNCHANGED <<agent, aliased, reader_vars, call_vars, parked,
                   api_vars>>

Run == Start(MaxRuns, Queries)

\* the bookkeeping of the graph runtime when node n ran
Scheduled(n) ==
    /\ phase = "running"
    /\ n \in active
    /\ trace' = Append(trace, n)
    /\ active' = (active \ {n}) \cup Successors(n)
    /\ UNCHANGED <<agent, aliased, runs, phase, returned, reader_vars, call_vars, parked,
                   api_vars>>

UnderstandQuery ==
    /\ Scheduled("understand_query")
    /\ state' = ApplyWrites(understand_query(state))
    /\ UNCHANGED <<calls, responses, context, raised>>

PlanSearch ==
    /\ Scheduled("plan_search")
    /\ state' = ApplyWrites(plan_search(state))
    /\ UNCHANGED <<calls, responses, context, raised>>

\* execute_search; an exception that leaves the stage ends graph.invoke
ExecuteSearch ==
    /\ phase = "running"
    /\ "execute_search" \in active
    /\ LET search_plan == state.analysis_results.search_plan
           remote == SearchBranch(agent.has_fs, agent.github_url) = "remote"
           n == IF remote
                THEN 1 + Len(Take(search_plan.keywords, MaxKeywords)) ELSE 0
       IN  \E rs \in {r \in [1..n -> Responses] :
                          n > 0 => r[1] \in RepoResponses} :
             LET s == Search(agent.corpus, agent.has_fs, agent.github_url,
                             search_plan, rs)
             IN  /\ responses' = rs
                 /\ calls' = calls \o s.calls
                 /\ raised' = s.raised
                 /\ trace' = Append(trace, "execute_search")
                 /\ IF s.raised
                    THEN /\ active' = {}
                         /\ state' = state
                    ELSE /\ active' = (active \ {"execute_search"})
                                          \cup Successors("execute_search")
                         /\ state' = ApplyWrites(execute_search(state, s.results))
    /\ UNCHANGED <<agent, aliased, runs, phase, returned, context,
                   reader_vars, call_vars, parked,
                   api_vars>>

AnalyzeCode ==
    /\ Scheduled("analyze_code")
    /\ state' = ApplyWrites(analyze_code(state, agent.corpus, agent.has_fs))
    /\ calls' = calls \o
           [i \in 1..Len(Candidates(agent.has_fs,
                                    state.analysis_results.search_results)) |->
               [op |-> "read_file",
                arg |-> PathStr(Candidates(agent.has_fs,
                            state.analysis_results.search_results)[i].path),
                found |-> 0, kept |-> 0]]
    /\ UNCHANGED <<responses, context, raised>>

GenerateResponse ==
    /\ Scheduled("generate_response")
    /\ context' = prepare_context(state.analysis_results)
    /\ state' = ApplyWrites(generate_response(state))
    /\ UNCHANGED <<calls, responses, raised>>

\* the end of graph.invoke and of run: the messages of the final state are
\* formatted and returned; query_agent answers 500 when an exception left
Return ==
    /\ phase = "running"
    /\ active = {}
    /\ phase' = "idle"
    /\ returned' =
           IF raised THEN [status |-> 500, messages |-> << >>]
           ELSE [status |-> 200,
                 messages |-> [i \in 1..Len(state.messages) |->
                                  [role |-> "assistant",
                                   content |-> state.messages[i].content]]]
    /\ UNCHANGED <<agent, aliased, runs, active, trace, state, calls,
                   responses, context, raised, reader_vars, call_vars, parked,
                   api_vars>>

Next ==
    \/ Run
    \/ UnderstandQuery
    \/ PlanSearch
    \/ ExecuteSearch
    \/ AnalyzeCode
    \/ GenerateResponse
    \/ Return

Spec == Init /\ [][Next]_vars

(***************************************************************************)
(* Direct requests to FileSystemMCP.read_file                              *)
(***************************************************************************)

\* the longest request path, in components
MaxPathLen == 4

\* the components of request paths
Components ==
    { DotDot,
      <<"e", "t", "c">>,
      <<"p", "a", "s", "s", "w", "d">>,
      <<"p", "k", "g">>,
      <<"a", "u", "t", "h", ".", "p", "y">> }

\* the request paths: relative or absolute, of 1..MaxPathLen components
Requests ==
    {[abs |-> a, parts |-> p] :
        a \in BOOLEAN,
        p \in UNION {[1..n -> Components] : n \in 1..MaxPathLen}}

InitRead ==
    /\ agent \in {a \in Agents : a.has_fs /\ a.github_url = << >>
                                  /\ a.corpus \in {EmptyRepo, DemoRepo}}
    /\ aliased = FALSE
    /\ runs = 0
    /\ phase = "idle"
    /\ active = {}
    /\ trace = << >>
    /\ state = [messages |-> << >>, repo_path |-> << >>, github_url |-> << >>,
                current_step |-> "start", analysis_results |-> << >>,
                user_query |-> << >>]
    /\ calls = << >>
    /\ responses = << >>
    /\ context = << >>
    /\ raised = FALSE
    /\ returned = [status |-> 0, messages |-> << >>]
    /\ read_request = NoRequest
    /\ read_result = NoResult
    /\ call = NoCall
    /\ result = NoResult
    /\ parked = NoRun
    /\ ApiAtRest

\* a call fs_mcp.read_file(file_path); one request is followed per behaviour
ReadFile ==
    /\ read_result = NoResult
    /\ \E req \in Requests :
          /\ read_request' = req
          /\ read_result' = read_file(agent.corpus, req)
    /\ UNCHANGED <<agent, aliased, run_vars, call_vars, parked,
                   api_vars>>

NextRead == ReadFile

SpecRead == InitRead /\ [][NextRead]_vars

(***************************************************************************)
(* Several queries to one agent                                            *)
(*                                                                         *)
(* run keeps everything it works on in local variables (initial_state,     *)
(* final_state, the channels of graph.invoke), so two calls of run on the  *)
(* same agent share the agent only.  The run that is not executing a stage *)
(* is held in parked; the runs take turns between stages.                  *)
(***************************************************************************)

\* the number of queries one agent is asked
MaxSessionRuns == 2

\* the repository of the session: a readable, an undecodable and an
\* unparseable file that match *auth*.py, and a file that matches *login*.py
SessionRepo == SubSeq(DemoRepo, 1, 4)

\* the queries of the session: one planned with patterns and keywords, one
\* with keywords only, one with patterns only
SessionQueries ==
    { <<"A", "U", "T", "H", " ", "f", "l", "o", "w">>,
      <<"f", "i", "n", "d", " ", "b", "u", "g", "s">>,
      <<"e", "x", "p", "l", "a", "i", "n", " ", "t", "h", "e", " ", "c", "o", "d", "e">> }

InitSessions ==
    /\ agent = [corpus |-> SessionRepo, has_fs |-> TRUE, github_url |-> << >>]
    /\ aliased \in BOOLEAN
    /\ runs = 0
    /\ phase = "idle"
    /\ active = {}
    /\ trace = << >>
    /\ state = NoRun.state
    /\ calls = << >>
    /\ responses = << >>
    /\ context = << >>
    /\ raised = FALSE
    /\ returned = [status |-> 0, messages |-> << >>]
    /\ read_request = NoRequest
    /\ read_result = NoResult
    /\ call = NoCall
    /\ result = NoResult
    /\ parked = NoRun
    /\ ApiAtRest

\* RunSession: a query of the session is asked
RunSession == Start(MaxSessionRuns, SessionQueries)

\* the other call of run takes its turn
Switch ==
    /\ parked # [phase |-> phase, active |-> active, trace |-> trace,
                 state |-> state, calls |-> calls, responses |-> responses,
                 context |-> context, raised |-> raised,
                 returned |-> returned]
    /\ parked' = [phase |-> phase, active |-> active, trace |-> trace,
                  state |-> state, calls |-> calls, responses |-> responses,
                  context |-> context, raised |-> raised,
                  returned |-> returned]
    /\ phase' = parked.phase
    /\ active' = parked.active
    /\ trace' = parked.trace
    /\ state' = parked.state
    /\ calls' = parked.calls
    /\ responses' = parked.responses
    /\ context' = parked.context
    /\ raised' = parked.raised
    /\ returned' = parked.returned
    /\ UNCHANGED <<agent, aliased, runs, reader_vars, call_vars, api_vars>>

NextSessions ==
    \/ RunSession
    \/ Switch
    \/ UnderstandQuery
    \/ PlanSearch
    \/ ExecuteSearch
    \/ AnalyzeCode
    \/ GenerateResponse
    \/ Return

SpecSessions == InitSessions /\ [][NextSessions]_vars

(***************************************************************************)
(* Direct calls of the analyzer and of the accessor                        *)
(*                                                                         *)
(* One operation is called per behaviour: call holds the operation and its *)
(* arguments, result what it returned.                                     *)
(***************************************************************************)

\* no run is under way and no file was requested
AtRest ==
    /\ aliased = FALSE
    /\ runs = 0
    /\ phase = "idle"
    /\ active = {}
    /\ trace = << >>
    /\ state = [messages |-> << >>, repo_path |-> << >>, github_url |-> << >>,
                current_step |-> "start", analysis_results |-> << >>,
                user_query |-> << >>]
    /\ calls = << >>
    /\ responses = << >>
    /\ context = << >>
    /\ raised = FALSE
    /\ returned = [status |-> 0, messages |-> << >>]
    /\ read_request = NoRequest
    /\ read_result = NoResult
    /\ parked = NoRun
    /\ ApiAtRest

\* the sequences over set S of length at most n
SeqsUpTo(S, n) == UNION {[1..k -> S] : k \in 0..n}

\* the number of lines of a piece of content given to _detect_python_issues
MaxContentLines == 3

\* a line of 122 characters that every rule of _detect_python_issues
\* reports
FiveIssueLine ==
    LET text == <<"e", "v", "a", "l", "(", "e", "x", "e", "c", "(", "F", "I", "X", "M", "E", ")", ")", ";", " ", "p", "a", "s", "s", "w", "o", "r", "d", " ", "=", " ", "'">>
    IN  text \o [i \in 1..(MaxLineLength + 2 - Len(text)) |-> "x"]

\* lines with and without issues; the last two are of 121 and 120 characters
ContentLines ==
    { <<"x", " ", "=", " ", "e", "v", "a", "l", "(", "s", ")">>,
      FiveIssueLine,
      <<"P", "a", "s", "s", "W", "o", "r", "d", " ", "=", " ", "'", "x", "'">>,
      <<"p", "a", "s", "s">>,
      [i \in 1..(MaxLineLength + 1) |-> "x"],
      [i \in 1..MaxLineLength |-> "y"] }

InitDetect ==
    /\ agent = [corpus |-> EmptyRepo, has_fs |-> TRUE, github_url |-> << >>]
    /\ AtRest
    /\ \E c \in SeqsUpTo(ContentLines, MaxContentLines) :
          \E k \in 0..Len(c) :
             call = [op |-> "detect_python_issues",
                     a |-> SubSeq(c, 1, k), b |-> SubSeq(c, k + 1, Len(c))]
    /\ result = NoResult

\* _detect_python_issues on content a, on content b and on a followed by b
DetectIssues ==
    /\ call.op = "detect_python_issues"
    /\ result = NoResult
    /\ result' = [a  |-> detect_python_issues(call.a),
                  b  |-> detect_python_issues(call.b),
                  ab |-> detect_python_issues(call.a \o call.b)]
    /\ UNCHANGED <<agent, aliased, run_vars, reader_vars, call, parked,
                   api_vars>>

NextDetect == DetectIssues

SpecDetect == InitDetect /\ [][NextDetect]_vars

\* the queries of direct content searches
SearchQueries ==
    { <<"a", "u", "t", "h">>, <<"A", "U", "T", "H">>, <<"T", "o", "k", "e", "n">>, <<"t", "o", "d", "o">>, <<"l", "o", "g", "i", "n">>, <<"T">>, <<"z", "z", "z">>, << >> }

\* the file patterns of direct content searches and listings
SearchPatterns ==
    { <<"*", ".", "p", "y">>, <<"*">>, <<"*", "a", "u", "t", "h", "*">>, <<"*", ".", "j", "s">>, <<"*", ".", "m", "d">> }

InitSearch ==
    /\ agent \in {a \in Agents : a.has_fs /\ a.github_url = << >>}
    /\ AtRest
    /\ call \in {[op |-> "search_in_files", query |-> q, file_pattern |-> p] :
                    q \in SearchQueries, p \in SearchPatterns}
    /\ result = NoResult

\* fs_mcp.search_in_files(query, file_pattern), with what list_files answers
\* for the same pattern
SearchInFiles ==
    /\ call.op = "search_in_files"
    /\ result = NoResult
    /\ result' = [matches |-> search_in_files(agent.corpus, call.query,
                                              call.file_pattern),
                  files |-> list_files(agent.corpus, call.file_pattern)]
    /\ UNCHANGED <<agent, aliased, run_vars, reader_vars, call, parked,
                   api_vars>>

NextSearch == SearchInFiles

SpecSearch == InitSearch /\ [][NextSearch]_vars

\* the number of top-level statements of a source file given to the analyzer
MaxStatements == 4

\* the top-level statements of a source file: a function without and with a
\* docstring, an async function, a class with one method
Statements ==
    { [kind |-> "FunctionDef", doc |-> FALSE, methods |-> 0],
      [kind |-> "FunctionDef", doc |-> TRUE, methods |-> 0],
      [kind |-> "AsyncFunctionDef", doc |-> FALSE, methods |-> 0],
      [kind |-> "ClassDef", doc |-> FALSE, methods |-> 1] }

\* the line of the i-th statement: a function takes 2 lines, a class one line
\* and 2 for each method
RECURSIVE StartLine(_, _)
StartLine(stmts, i) ==
    IF i = 1 THEN 1
    ELSE StartLine(stmts, i - 1) + (IF stmts[i - 1].kind = "ClassDef"
                                    THEN 1 + 2 * stmts[i - 1].methods ELSE 2)

\* ast.walk(tree): breadth first, the top-level statements in source order
\* and after them the methods of the classes
Walk(stmts) ==
    [i \in 1..Len(stmts) |->
        [kind |-> stmts[i].kind, name |-> <<"f", ToString(i)>>,
         line |-> StartLine(stmts, i), args |-> 0, decorators |-> 0,
         body |-> [k \in 1..stmts[i].methods |-> "FunctionDef"],
         names |-> << >>, depth |-> 0, doc |-> stmts[i].doc]]
    \o
    Flatten([i \in 1..Len(stmts) |->
        [k \in 1..stmts[i].methods |->
            [kind |-> "FunctionDef", name |-> <<"m", ToString(i)>>,
             line |-> StartLine(stmts, i) + 1, args |-> 1, decorators |-> 0,
             body |-> << >>, names |-> << >>, depth |-> 1, doc |-> FALSE]]])

\* what radon may answer: cc_visit raises or returns blocks around the
\* complexity limit; mi_visit raises or returns an index around its limit
RadonAnswers ==
    {[cc |-> cc, mi |-> mi] :
        cc \in { [ok |-> FALSE, blocks |-> << >>],
                 [ok |-> TRUE,
                  blocks |-> << Block(<<"a">>, ComplexityLimit, 1) >>],
                 [ok |-> TRUE,
                  blocks |-> << Block(<<"a">>, ComplexityLimit + 1, 1),
                                Block(<<"b">>, ComplexityLimit, 3) >>],
                 [ok |-> TRUE,
                  blocks |-> << Block(<<"a">>, ComplexityLimit + 1, 1),
                                Block(<<"b">>, ComplexityLimit + 2, 3),
                                Block(<<"c">>, ComplexityLimit + 3, 5),
                                Block(<<"d">>, ComplexityLimit + 4, 7) >>] },
        mi \in { [ok |-> FALSE, value |-> 0],
                 [ok |-> TRUE, value |-> MaintainabilityLimit - 1],
                 [ok |-> TRUE, value |-> MaintainabilityLimit] }}

\* what ast.parse may do: return the tree, raise SyntaxError at line 2, raise
\* another exception
ParseOutcomes ==
    { [syntax |-> 0, raises |-> FALSE],
      [syntax |-> 2, raises |-> FALSE],
      [syntax |-> 0, raises |-> TRUE] }

\* the source files given to the analyzer directly; radon is only asked
\* about content that parses
SourceFiles ==
    {[TextFile(<< >>, <<"m", ".", "p", "y">>,
               << <<"x", " ", "=", " ", "e", "v", "a", "l", "(", "s", ")">>,
                  <<"#", " ", "T", "O", "D", "O">> >>)
         EXCEPT !.nodes = Walk(stmts), !.syntax = po.syntax,
                !.raises = po.raises, !.cc = ra.cc, !.mi = ra.mi] :
        stmts \in SeqsUpTo(Statements, MaxStatements),
        po \in ParseOutcomes,
        ra \in RadonAnswers}

InitAnalyze ==
    /\ agent = [corpus |-> EmptyRepo, has_fs |-> TRUE, github_url |-> << >>]
    /\ AtRest
    /\ call \in {[op |-> "analyze_python_file", f |-> f,
                  file_path |-> <<f.name>>] :
                    f \in {g \in SourceFiles :
                              (g.syntax # 0 \/ g.raises) =>
                                  (~g.cc.ok /\ ~g.mi.ok)}}
    /\ result = NoResult

\* analyzer_mcp.analyze_python_file(content, file_path) followed by
\* analyzer_mcp.suggest_improvements(file_analysis), as analyze_code does
AnalyzeFile ==
    /\ call.op = "analyze_python_file"
    /\ result = NoResult
    /\ result' =
          [analysis |-> analyze_python_file(call.f, call.file_path),
           suggestions |->
               suggest_improvements(
                   analyze_python_file(call.f, call.file_path))]
    /\ UNCHANGED <<agent, aliased, run_vars, reader_vars, call, parked,
                   api_vars>>

NextAnalyze == AnalyzeFile

SpecAnalyze == InitAnalyze /\ [][NextAnalyze]_vars

\* the number of issues collected before the histogram is built
MaxIssues == 3

\* issues as the analyzer reports them, and an entry without a severity
IssueSamples ==
    { LineIssues(<<"e", "v", "a", "l", "(">>, 1)[1],
      LineIssues(<<"p", "a", "s", "s", "w", "o", "r", "d", "=", "'">>, 2)[1],
      LineIssues(<<"T", "O", "D", "O">>, 3)[1],
      [type |-> "style", line |-> 4] }

\* the orders in which the same issues may have been collected
Reordered(xs) ==
    {[i \in 1..Len(xs) |-> xs[p[i]]] : p \in Permutations(1..Len(xs))}

InitHistogram ==
    /\ agent = [corpus |-> EmptyRepo, has_fs |-> TRUE, github_url |-> << >>]
    /\ AtRest
    /\ \E xs \in SeqsUpTo(IssueSamples, MaxIssues) :
          \E ys \in Reordered(xs) :
             call = [op |-> "issues_summary", issues |-> xs, reordered |-> ys]
    /\ result = NoResult

\* the histogram of _prepare_context over the issues and over the same
\* issues collected in another order
Histogram ==
    /\ call.op = "issues_summary"
    /\ result = NoResult
    /\ result' = [histogram |-> issues_summary(call.issues),
                  reordered |-> issues_summary(call.reordered)]
    /\ UNCHANGED <<agent, aliased, run_vars, reader_vars, call, parked,
                   api_vars>>

NextHistogram == Histogram

SpecHistogram == InitHistogram /\ [][NextHistogram]_vars

\* files a repository may hold, in os.walk order, none deeper than the
\* depth bound of the tree: source files, a hidden file, a file without
\* extension, files in build, dependency and hidden directories
TreeCandidates ==
    << TextFile(<< >>, <<"m", "a", "i", "n", ".", "p", "y">>, << >>),
       TextFile(<< >>, <<".", "e", "n", "v", ".", "j", "s", "o", "n">>, << >>),
       TextFile(<< >>, <<"n", "o", "t", "e", "s">>, << >>),
       TextFile(<< <<"s", "r", "c">> >>, <<"a", "p", "p", ".", "p", "y">>, << >>),
       TextFile(<< <<"s", "r", "c">>, <<"p", "k", "g">> >>, <<"u", "t", "i", "l", ".", "p", "y">>, << >>),
       TextFile(<< <<"d", "i", "s", "t">> >>, <<"b", "u", "n", "d", "l", "e", ".", "j", "s">>, << >>),
       TextFile(<< <<"b", "u", "i", "l", "d">> >>, <<"o", "u", "t", ".", "p", "y">>, << >>),
       TextFile(<< <<"n", "o", "d", "e", "_", "m", "o", "d", "u", "l", "e", "s">> >>, <<"l", "i", "b", ".", "j", "s">>, << >>),
       TextFile(<< <<".", "g", "i", "t">> >>, <<"h", "o", "o", "k", "s", ".", "p", "y">>, << >>) >>

\* the files of a sequence at the positions of set S, in order
RECURSIVE Selected(_, _, _)
Selected(files, i, S) ==
    IF i > Len(files) THEN << >>
    ELSE (IF i \in S THEN <<files[i]>> ELSE << >>)
             \o Selected(files, i + 1, S)

InitTree ==
    /\ \E S \in SUBSET (1..Len(TreeCandidates)) :
          agent = [corpus |-> Selected(TreeCandidates, 1, S),
                   has_fs |-> TRUE, github_url |-> << >>]
    /\ AtRest
    /\ call = [op |-> "get_file_structure"]
    /\ result = NoResult

\* fs_mcp.get_file_structure(), with what list_files("*") answers for the
\* same repository
FileStructure ==
    /\ call.op = "get_file_structure"
    /\ result = NoResult
    /\ result' = [structure |-> get_file_structure(agent.corpus),
                  files |-> list_files(agent.corpus, <<"*">>)]
    /\ UNCHANGED <<agent, aliased, run_vars, reader_vars, call, parked,
                   api_vars>>

NextTree == FileStructure

SpecTree == InitTree /\ [][NextTree]_vars

(***************************************************************************)
(* Repositories with a file that matches several patterns of one plan      *)
(***************************************************************************)

\* a repository whose files auth_login.py, db_model.py and
\* api_route_views.py each match all the patterns of one search plan
OverlapRepo ==
    << [TextFile(<< >>,
             <<"a", "u", "t", "h", "_", "l", "o", "g", "i", "n", ".", "p", "y">>,
             << <<"p", "a", "s", "s", "w", "o", "r", "d", " ", "=", " ", "\"", "h", "u", "n", "t", "e", "r", "2", "\"">>,
                <<"#", " ", "T", "O", "D", "O", " ", "t", "o", "k", "e", "n">> >>)
            EXCEPT !.mi = [ok |-> TRUE, value |-> 19]],
       TextFile(<< >>,
             <<"d", "b", "_", "m", "o", "d", "e", "l", ".", "p", "y">>,
             << <<"q", " ", "=", " ", "e", "v", "a", "l", "(", "s", "q", "l", ")">> >>),
       TextFile(<< >>,
             <<"a", "p", "i", "_", "r", "o", "u", "t", "e", "_", "v", "i", "e", "w", "s", ".", "p", "y">>,
             << <<"#", " ", "F", "I", "X", "M", "E", " ", "e", "n", "d", "p", "o", "i", "n", "t">> >>),
       TextFile(<< >>,
             <<"u", "t", "i", "l", ".", "p", "y">>,
             << <<"x", " ", "=", " ", "1">> >>) >>

\* the repositories uploaded: the whole of OverlapRepo, or its first file
OverlapCorpora == {OverlapRepo, SubSeq(OverlapRepo, 1, 1)}

\* a session of api.py on one of these repositories, before its query
InitOverlap ==
    /\ agent \in {[corpus |-> c, has_fs |-> TRUE, github_url |-> u] :
                     c \in OverlapCorpora, u \in {<< >>, RepoUrl}}
    /\ AtRest
    /\ call = NoCall
    /\ result = NoResult

SpecOverlap == InitOverlap /\ [][Next]_vars

(***************************************************************************)
(* The REST API                                                            *)
(*                                                                         *)
(* The handlers of api.py are coroutines on one event loop: a handler runs *)
(* without interruption up to its next await.  upload_zip has one await    *)
(* (file.read()), the other handlers have none.  What agent.run does for a *)
(* query is the subject of Spec; here a query records whether run was      *)
(* called and whether it returned or raised.                               *)
(***************************************************************************)

\* the number of directory names tempfile.mkdtemp can choose from
MaxDirs == 2

\* the names of the directories mkdtemp creates; Path(temp_dir).name is the
\* session id
TempNames == 1..MaxDirs

\* the session ids a client may send: the names, and one that is no name
SessionIds == 0..MaxDirs

\* the registries, the disk and the waiting uploads as one record
Api ==
    [sessions |-> sessions, temp_dirs |-> temp_dirs, dirs |-> dirs,
     uploading |-> uploading, reply |-> reply]

\* dict[key] = value
SetItem(dict, key, value) ==
    [k \in DOMAIN dict \cup {key} |-> IF k = key THEN value ELSE dict[k]]

\* del dict[key]
DelItem(dict, key) == [k \in DOMAIN dict \ {key} |-> dict[k]]

\* shutil.rmtree(temp_dir, ignore_errors=True)
rmtree(ds, d) == ds \ {d}

\* "sessions[session_id] = agent; temp_dirs[session_id] = temp_dir" of the
\* two uploads
Registered(api, d, url) ==
    [api EXCEPT
        !.sessions = SetItem(@, d, [repo_path |-> d, github_url |-> url]),
        !.temp_dirs = SetItem(@, d, d)]

\* upload_zip up to "await file.read()".  outcome: "not_zip" (the file name
\* does not end in .zip), "mkdtemp_error", "open_error", "ok"
upload_zip_begin(api, d, outcome) ==
    CASE outcome = "not_zip" ->
            [api EXCEPT !.reply = [op |-> "upload_zip", status |-> 400, dir |-> 0]]
      [] outcome = "mkdtemp_error" ->
            [api EXCEPT !.reply = [op |-> "upload_zip", status |-> 500, dir |-> 0]]
      [] outcome = "open_error" ->
            [api EXCEPT !.dirs = rmtree(api.dirs \cup {d}, d),
                        !.reply = [op |-> "upload_zip", status |-> 500, dir |-> d]]
      [] OTHER ->
            [api EXCEPT !.dirs = @ \cup {d},
                        !.uploading = @ \cup {d},
                        !.reply = NoReply]

\* upload_zip from "await file.read()" on.  outcome: "error" (the read, the
\* write, the extraction or the construction of the agent raises), "ok"
upload_zip_end(api, d, outcome) ==
    IF outcome = "error"
    THEN [api EXCEPT !.dirs = rmtree(@, d),
                     !.uploading = @ \ {d},
                     !.reply = [op |-> "upload_zip", status |-> 500, dir |-> d]]
    ELSE [Registered(api, d, FALSE) EXCEPT
                     !.uploading = @ \ {d},
                     !.reply = [op |-> "upload_zip", status |-> 200, dir |-> d]]

\* upload_github with the session registered before the clone
upload_github_registering_first(api, d, outcome) ==
    CASE outcome = "mkdtemp_error" ->
            [api EXCEPT !.reply = [op |-> "upload_github", status |-> 500, dir |-> 0]]
      [] outcome = "clone_error" ->
            [Registered(api, d, TRUE) EXCEPT
                        !.dirs = rmtree(api.dirs \cup {d}, d),
                        !.reply = [op |-> "upload_github", status |-> 400, dir |-> d]]
      [] outcome = "error" ->
            [Registered(api, d, TRUE) EXCEPT
                        !.dirs = rmtree(api.dirs \cup {d}, d),
                        !.reply = [op |-> "upload_github", status |-> 500, dir |-> d]]
      [] OTHER ->
            [Registered(api, d, TRUE) EXCEPT
                        !.dirs = @ \cup {d},
                        !.reply = [op |-> "upload_github", status |-> 200, dir |-> d]]

\* upload_github.  outcome: "mkdtemp_error" (temp_dir is unbound in the
\* except clause, the NameError leaves the handler: 500), "clone_error"
\* (git.GitCommandError), "error" (any other exception), "ok"
upload_github(api, d, outcome) ==
    CASE outcome = "mkdtemp_error" ->
            [api EXCEPT !.reply = [op |-> "upload_github", status |-> 500, dir |-> 0]]
      [] outcome = "clone_error" ->
            [api EXCEPT !.dirs = rmtree(api.dirs \cup {d}, d),
                        !.reply = [op |-> "upload_github", status |-> 400, dir |-> d]]
      [] outcome = "error" ->
            [api EXCEPT !.dirs = rmtree(api.dirs \cup {d}, d),
                        !.reply = [op |-> "upload_github", status |-> 500, dir |-> d]]
      [] OTHER ->
            [Registered(api, d, TRUE) EXCEPT
                        !.dirs = @ \cup {d},
                        !.reply = [op |-> "upload_github", status |-> 200, dir |-> d]]

\* query_agent answering every session id that was ever registered
query_agent_ever_known(api, session_id, raises) ==
    IF session_id \notin DOMAIN api.sessions /\ session_id \notin deleted
    THEN [api EXCEPT !.reply = [op |-> "query", id |-> session_id,
                                status |-> 404, ran |-> FALSE]]
    ELSE [api EXCEPT !.reply = [op |-> "query", id |-> session_id,
                                status |-> IF raises THEN 500 ELSE 200,
                                ran |-> TRUE]]

\* query_agent; raises: agent.run raises
query_agent(api, session_id, raises) ==
    IF session_id \notin DOMAIN api.sessions
    THEN [api EXCEPT !.reply = [op |-> "query", id |-> session_id,
                                status |-> 404, ran |-> FALSE]]
    ELSE [api EXCEPT !.reply = [op |-> "query", id |-> session_id,
                                status |-> IF raises THEN 500 ELSE 200,
                                ran |-> TRUE]]

\* delete_session without its second if statement
delete_session_registry_only(api, session_id) ==
    [api EXCEPT
        !.sessions = IF session_id \in DOMAIN @ THEN DelItem(@, session_id) ELSE @,
        !.reply = [op |-> "delete", id |-> session_id, status |-> 200,
                   known |-> session_id \in DOMAIN api.sessions]]

\* delete_session
delete_session(api, session_id) ==
    [api EXCEPT
        !.sessions = IF session_id \in DOMAIN @ THEN DelItem(@, session_id) ELSE @,
        !.dirs = IF session_id \in DOMAIN api.temp_dirs
                 THEN rmtree(@, api.temp_dirs[session_id]) ELSE @,
        !.temp_dirs = IF session_id \in DOMAIN @ THEN DelItem(@, session_id) ELSE @,
        !.reply = [op |-> "delete", id |-> session_id, status |-> 200,
                   known |-> session_id \in DOMAIN api.sessions]]

\* list_sessions
list_sessions(api) ==
    [api EXCEPT !.reply = [op |-> "list", status |-> 200,
                           sessions |-> DOMAIN api.sessions,
                           count |-> Cardinality(DOMAIN api.sessions)]]

\* the handler step leaves the API as the record api says
Becomes(api) ==
    /\ sessions' = api.sessions
    /\ temp_dirs' = api.temp_dirs
    /\ dirs' = api.dirs
    /\ uploading' = api.uploading
    /\ reply' = api.reply

\* tempfile.mkdtemp: a directory that does not exist yet; none (0) when the
\* handler does not get to create one
NewDirs(outcome) ==
    IF outcome \in {"not_zip", "mkdtemp_error"} THEN {0} ELSE TempNames \ dirs

InitApi ==
    /\ agent = [corpus |-> EmptyRepo, has_fs |-> TRUE, github_url |-> << >>]
    /\ AtRest
    /\ call = NoCall
    /\ result = NoResult

\* a request POST /upload/zip, up to its await
UploadZipBegin ==
    /\ \E outcome \in {"not_zip", "mkdtemp_error", "open_error", "ok"} :
       \E d \in NewDirs(outcome) :
           Becomes(upload_zip_begin(Api, d, outcome))
    /\ UNCHANGED <<agent, aliased, run_vars, reader_vars, call_vars, parked,
                   deleted>>

\* file.read() of a waiting upload_zip returns or raises, and the handler
\* runs to its end
UploadZipEnd ==
    /\ \E d \in uploading : \E outcome \in {"error", "ok"} :
           Becomes(upload_zip_end(Api, d, outcome))
    /\ UNCHANGED <<agent, aliased, run_vars, reader_vars, call_vars, parked,
                   deleted>>

\* a request POST /upload/github
UploadGithub ==
    /\ \E outcome \in {"mkdtemp_error", "clone_error", "error", "ok"} :
       \E d \in NewDirs(outcome) :
           Becomes(upload_github(Api, d, outcome))
    /\ UNCHANGED <<agent, aliased, run_vars, reader_vars, call_vars, parked,
                   deleted>>

\* a request POST /query
QueryAgent ==
    /\ \E session_id \in SessionIds : \E raises \in BOOLEAN :
           Becomes(query_agent(Api, session_id, raises))
    /\ UNCHANGED <<agent, aliased, run_vars, reader_vars, call_vars, parked,
                   deleted>>

\* a request DELETE /session/{session_id}
DeleteSession ==
    /\ \E session_id \in SessionIds :
           /\ Becomes(delete_session(Api, session_id))
           /\ deleted' = IF session_id \in DOMAIN sessions
                         THEN deleted \cup {session_id} ELSE deleted
    /\ UNCHANGED <<agent, aliased, run_vars, reader_vars, call_vars, parked>>

\* a request GET /sessions
ListSessions ==
    /\ Becomes(list_sessions(Api))
    /\ UNCHANGED <<agent, aliased, run_vars, reader_vars, call_vars, parked,
                   deleted>>

NextApi ==
    \/ UploadZipBegin
    \/ UploadZipEnd
    \/ UploadGithub
    \/ QueryAgent
    \/ DeleteSession
    \/ ListSessions

SpecApi == InitApi /\ [][NextApi]_vars

(***************************************************************************)
(* Properties                                                              *)
(***************************************************************************)

\* the stage order the pipeline is specified to follow
StageOrder ==
    << "understand_query", "plan_search", "execute_search", "analyze_code",
       "generate_response" >>

\* the state.analysis_results entry under key k, or the empty dict
Payload(k) ==
    IF k \in DOMAIN state.analysis_results
    THEN state.analysis_results[k] ELSE << >>

\* stage number k of StageOrder has completed in the current run
Completed(k) == Len(trace) >= k

RECURSIVE Normalize(_, _)
Normalize(cur, rest) ==
    IF rest = << >> THEN cur
    ELSE IF Head(rest) = DotDot
         THEN Normalize(IF cur = << >> THEN cur
                        ELSE SubSeq(cur, 1, Len(cur) - 1), Tail(rest))
         ELSE Normalize(cur \o <<Head(rest)>>, Tail(rest))

\* the request names a location outside the repository root
Escapes(req) ==
    LET target == Normalize(<< >>, IF req.abs THEN req.parts
                                   ELSE RepoPath \o req.parts)
    IN  ~(Len(RepoPath) <= Len(target)
              /\ SubSeq(target, 1, Len(RepoPath)) = RepoPath)

\* C2: read_file never returns content for a path that resolves to a
\* location outside the repository root (such as ../../etc/passwd).
C2_NoContentOutsideRoot ==
    (read_result # NoResult /\ Escapes(read_request)) =>
        "content" \notin DOMAIN read_result

\* the trigger words of the four keyword-gated categories, in priority order
Triggers ==
    << { <<"a", "u", "t", "h", "e", "n", "t", "i", "c", "a", "t", "i", "o", "n">>,
         <<"a", "u", "t", "h">> },
       { <<"d", "a", "t", "a", "b", "a", "s", "e">>, <<"s", "q", "l">> },
       { <<"a", "p", "i">>, <<"e", "n", "d", "p", "o", "i", "n", "t">> },
       { <<"b", "u", "g">>, <<"e", "r", "r", "o", "r">> } >>

\* the number of the first category, in priority order, one of whose trigger
\* words occurs in the query case-insensitively; 5 (generic) when none does
FirstMatch(query) ==
    LET hit(i) == \E w \in Triggers[i] : Contains(Lower(query), w)
    IN  IF \E i \in 1..4 : hit(i)
        THEN CHOOSE i \in 1..4 : hit(i) /\ \A j \in 1..(i - 1) : ~hit(j)
        ELSE 5

\* the fixed table category -> plan
PlanTable == << AuthPlan, DatabasePlan, ApiPlan, BugPlan, GenericPlan >>

\* C3: once PlanSearch has run, the search plan is the plan of the first
\* category in the order authentication, database, API, bug/error, generic
\* whose trigger occurs in the query (case-insensitively); every query that
\* contains "auth" has keywords [auth, login, password, token] and patterns
\* [*auth*.py, *login*.py], whatever other trigger words it contains.
C3_FirstMatchWins ==
    Completed(2) =>
        /\ Payload("search_plan") = PlanTable[FirstMatch(state.user_query)]
        /\ Contains(Lower(state.user_query), <<"a", "u", "t", "h">>) =>
              /\ Payload("search_plan").keywords =
                     << <<"a", "u", "t", "h">>,
                        <<"l", "o", "g", "i", "n">>,
                        <<"p", "a", "s", "s", "w", "o", "r", "d">>,
                        <<"t", "o", "k", "e", "n">> >>
              /\ Payload("search_plan").patterns =
                     << <<"*", "a", "u", "t", "h", "*", ".", "p", "y">>,
                        <<"*", "l", "o", "g", "i", "n", "*", ".", "p", "y">> >>

\* C3 witness: PlanSearch has planned a query that contains "auth" and also
\* a trigger of a category of lower priority
C3_Witness ==
    /\ Completed(2)
    /\ Contains(Lower(state.user_query), <<"a", "u", "t", "h">>)
    /\ Contains(Lower(state.user_query), <<"s", "q", "l">>)
    /\ Payload("search_plan") = AuthPlan

\* the calls of this run to operation op, in order
CallsOf(op) == SelectSeq(calls, LAMBDA c : c.op = op)

\* the number of items kept over a sequence of logged calls
RECURSIVE SumKept(_)
SumKept(cs) == IF cs = << >> THEN 0 ELSE Head(cs).kept + SumKept(Tail(cs))

\* C4: after ExecuteSearch on a local corpus at most 5 patterns were listed
\* and at most 10 descriptors kept per pattern, at most 3 keywords were
\* searched and at most 20 matches kept per keyword, and the search results
\* hold what was kept: at most 50 file descriptors and at most 60 matches.
C4_BoundedFanOut ==
    (agent.has_fs /\ Completed(3)) =>
        LET listings == CallsOf("list_files")
            searches == CallsOf("search_in_files")
            results  == Payload("search_results")
        IN  /\ Len(listings) <= 5
            /\ \A i \in 1..Len(listings) : listings[i].kept <= 10
            /\ Len(searches) <= 3
            /\ \A i \in 1..Len(searches) : searches[i].kept <= 20
            /\ Len(results.files) = SumKept(listings)
            /\ Len(results.matches) = SumKept(searches)
            /\ Len(results.files) <= 50
            /\ Len(results.matches) <= 60

\* C4 witness: a listing found more than 10 descriptors and kept 10, and a
\* content search found more than 20 matches and kept 20
C4_Witness ==
    /\ agent.has_fs
    /\ Completed(3)
    /\ \E i \in 1..Len(calls) :
          /\ calls[i].op = "list_files"
          /\ calls[i].found > 10
          /\ calls[i].kept = 10
    /\ \E i \in 1..Len(calls) :
          /\ calls[i].op = "search_in_files"
          /\ calls[i].found > 20
          /\ calls[i].kept = 20

\* the last component of the path ends in .py
IsPython(path) == EndsWith(path[Len(path)], <<".", "p", "y">>)

\* the issues carried by a sequence of file analyses, in order
RECURSIVE IssuesOf(_)
IssuesOf(analyses) ==
    IF analyses = << >> THEN << >>
    ELSE (IF "issues" \in DOMAIN Head(analyses)
          THEN Head(analyses).issues ELSE << >>) \o IssuesOf(Tail(analyses))

\* the suggestions derived from a sequence of file analyses, in order
RECURSIVE SuggestionsOf(_)
SuggestionsOf(analyses) ==
    IF analyses = << >> THEN << >>
    ELSE suggest_improvements(Head(analyses)) \o SuggestionsOf(Tail(analyses))

\* C5: AnalyzeCode reads exactly the first 5 descriptors of the search
\* results, in result order; the file analyses are at most 5, each of one of
\* those descriptors with a path ending in .py, in result order; and the
\* issues and suggestions are exactly those of the file analyses, so that a
\* descriptor at position 6 or later contributes nothing.
C5_FirstFiveOnly ==
    (agent.has_fs /\ Completed(4)) =>
        LET files    == Payload("search_results").files
            first    == SubSeq(files, 1, IF Len(files) < 5 THEN Len(files) ELSE 5)
            analysis == Payload("code_analysis")
            analysed == SelectSeq(first, LAMBDA d :
                            \E i \in 1..Len(analysis.file_analyses) :
                                analysis.file_analyses[i].file = d.path)
        IN  /\ CallsOf("read_file") =
                   [i \in 1..Len(first) |->
                       [op |-> "read_file", arg |-> PathStr(first[i].path),
                        found |-> 0, kept |-> 0]]
            /\ Len(analysis.file_analyses) <= 5
            /\ \A i \in 1..Len(analysis.file_analyses) :
                  /\ IsPython(analysis.file_analyses[i].file)
                  /\ \E j \in 1..Len(first) :
                        first[j].path = analysis.file_analyses[i].file
            /\ [i \in 1..Len(analysis.file_analyses) |->
                   analysis.file_analyses[i].file]
                 = [i \in 1..Len(analysed) |-> analysed[i].path]
            /\ analysis.issues = IssuesOf(analysis.file_analyses)
            /\ analysis.suggestions = SuggestionsOf(analysis.file_analyses)

\* C5 witness: the search results hold more than 5 descriptors, the sixth a
\* readable .py file, and AnalyzeCode produced 5 file analyses
C5_Witness ==
    /\ agent.has_fs
    /\ Completed(4)
    /\ Len(Payload("search_results").files) > 5
    /\ IsPython(Payload("search_results").files[6].path)
    /\ "content" \in DOMAIN read_file(agent.corpus,
           [abs |-> FALSE, parts |-> Payload("search_results").files[6].path])
    /\ Len(Payload("code_analysis").file_analyses) = 5

\* the read or the parse of descriptor d fails
Fails(d) ==
    LET f == FileAt(agent.corpus, RepoPath \o d.path)
    IN  \/ f.data # "text"
        \/ IsPython(d.path) /\ (f.syntax # 0 \/ f.raises)

\* C6: a failure on one candidate file in AnalyzeCode never aborts the
\* pipeline: every failing candidate is recorded as an error entry in the
\* list of file analyses, the issues and suggestions are those of the
\* candidates that did not fail, and every .py candidate that does not fail
\* is analyzed.
C6_FailureRecorded ==
    (agent.has_fs /\ Completed(4)) =>
        LET files    == Payload("search_results").files
            first    == SubSeq(files, 1, IF Len(files) < 5 THEN Len(files) ELSE 5)
            analysis == Payload("code_analysis")
            entry(d, a) == a.file = d.path
        IN  /\ ~raised
            /\ \A i \in 1..Len(first) :
                  Fails(first[i]) =>
                      \E j \in 1..Len(analysis.file_analyses) :
                          /\ entry(first[i], analysis.file_analyses[j])
                          /\ "error" \in DOMAIN analysis.file_analyses[j]
            /\ \A i \in 1..Len(first) :
                  (~Fails(first[i]) /\ IsPython(first[i].path)) =>
                      \E j \in 1..Len(analysis.file_analyses) :
                          /\ entry(first[i], analysis.file_analyses[j])
                          /\ "error" \notin DOMAIN analysis.file_analyses[j]

\* C7: whenever the agent has a local accessor, with or without a GitHub
\* URL, no call of get_repo_info or search_code is made and the GitHub API is
\* never asked.
C7_RemoteOnlyWithoutLocal ==
    agent.has_fs =>
        /\ \A i \in 1..Len(calls) :
              calls[i].op \notin {"get_repo_info", "search_code"}
        /\ responses = << >>

\* C7 witness: ExecuteSearch has searched the clone of a GitHub repository
\* (the agent has a local accessor and a GitHub URL) through the accessor
C7_Witness ==
    /\ agent.has_fs
    /\ agent.github_url # << >>
    /\ Completed(3)
    /\ \E i \in 1..Len(calls) : calls[i].op = "list_files"

\* the agent searches the remote repository: no local accessor, a URL
RemoteMode == ~agent.has_fs /\ agent.github_url # << >>

\* the GitHub API did not answer the request with success
NonSuccess(r) == r.raises \/ r.status # 200

\* the number of items the successful code searches of rs returned
RECURSIVE SuccessItems(_)
SuccessItems(rs) ==
    IF rs = << >> THEN 0
    ELSE (IF NonSuccess(Head(rs)) THEN 0 ELSE Head(rs).items)
             + SuccessItems(Tail(rs))

\* C8: in remote mode, when get_repo_info or search_code meets a non-success
\* answer (a status other than 200, or an exception), ExecuteSearch still
\* completes and stores search results that hold the items of the searches
\* that succeeded, no exception leaves the stage, the next stage is
\* scheduled, and a run that has returned went through
\* all five stages and answered 200.
C8_SoftFailure ==
    (RemoteMode /\ Completed(3)
        /\ \E i \in 1..Len(responses) : NonSuccess(responses[i])) =>
        /\ ~raised
        /\ "search_results" \in DOMAIN state.analysis_results
        /\ Len(Payload("search_results").matches)
               >= SuccessItems(Tail(responses))
        /\ (phase = "running" /\ Len(trace) < 5) => active # {}
        /\ phase = "idle" => (returned.status = 200 /\ trace = StageOrder)

\* C8 witness: a run in remote mode returned 200 after one code search
\* raised, another was refused and a third succeeded with an item
C8_Witness ==
    /\ RemoteMode
    /\ returned.status = 200
    /\ trace = StageOrder
    /\ \E i \in 2..Len(responses) : responses[i].raises
    /\ \E i \in 2..Len(responses) :
          ~responses[i].raises /\ responses[i].status # 200
    /\ \E i \in 2..Len(responses) :
          ~NonSuccess(responses[i]) /\ responses[i].items > 0

\* the corpus holds no file with an allow-listed extension
NoAllowListedFile(corpus) ==
    \A i \in 1..Len(corpus) : Suffix(corpus[i].name) \notin allowed_extensions

\* C9: for a local repository without any file of an allow-listed
\* extension and every query: the search results have no files and no
\* matches, ExecuteSearch calls get_file_structure, the tree has no
\* children, AnalyzeCode produces no issues and no suggestions, and the
\* context handed to the LLM holds the two count lines only.
C9_EmptyRepository ==
    (agent.has_fs /\ NoAllowListedFile(agent.corpus) /\ Completed(3)) =>
        LET results == Payload("search_results")
        IN  /\ results.files = << >>
            /\ results.matches = << >>
            /\ Len(CallsOf("get_file_structure")) = 1
            /\ "structure" \in DOMAIN results
            /\ results.structure.type = "directory"
            /\ results.structure.children = << >>
            /\ Completed(4) =>
                  /\ Payload("code_analysis").file_analyses = << >>
                  /\ Payload("code_analysis").issues = << >>
                  /\ Payload("code_analysis").suggestions = << >>
            /\ Completed(5) =>
                  context = << <<"Files found: ", "0">>,
                               <<"Code matches: ", "0">> >>

\* C9 witness: a run over a repository that holds files, none of an
\* allow-listed extension, has returned
C9_Witness ==
    /\ agent.has_fs
    /\ agent.corpus # << >>
    /\ NoAllowListedFile(agent.corpus)
    /\ returned.status = 200
    /\ "structure" \in DOMAIN Payload("search_results")

\* C10: the message trail holds exactly one message per completed stage:
\* after stage k the trail has k entries, and a complete run returns exactly
\* 5 messages.
C10_OneMessagePerStage ==
    /\ Len(state.messages) = Len(trace)
    /\ returned.status = 200 => Len(returned.messages) = 5

\* the issues with every line number increased by offset
Shifted(issues, offset) ==
    [i \in 1..Len(issues) |->
        [issues[i] EXCEPT !.line = @ + offset]]

\* C11: issue detection is line-local: the issues of content A followed by
\* content B are the issues of A followed by the issues of B with every line
\* number increased by the number of lines of A.
C11_LineLocal ==
    (call.op = "detect_python_issues" /\ result # NoResult) =>
        result.ab = result.a \o Shifted(result.b, Len(call.a))

\* C11 witness: both contents have lines and issues, and the last line of
\* the first and the first line of the second yield the same kind of issue
C11_Witness ==
    /\ call.op = "detect_python_issues"
    /\ result # NoResult
    /\ call.a # << >>
    /\ result.a # << >>
    /\ result.b # << >>
    /\ call.a[Len(call.a)] = call.b[1]
    /\ LineIssues(call.b[1], 1) # << >>
    /\ Len(result.ab) = Len(result.a) + Len(result.b)

\* the file of the corpus that descriptor d describes
FileOf(d) == FileAt(agent.corpus, RepoPath \o d.path)

\* the query occurs in the line, letter case ignored
Mentions(line, query) ==
    \E i \in 1..(Len(line) - Len(query) + 1) :
        \A k \in 1..Len(query) : LowerChar(line[i + k - 1]) = LowerChar(query[k])

\* the pairs <<i, n>> such that line n of the i-th listed file mentions the
\* query, over the listed files that satisfy Counted
Hits(files, query, Counted(_)) ==
    UNION {{<<i, n>> : n \in {m \in 1..Len(FileOf(files[i]).lines) :
                                  /\ Counted(FileOf(files[i]))
                                  /\ Mentions(FileOf(files[i]).lines[m], query)}} :
              i \in 1..Len(files)}

\* C12 as stated: the number of matches of search_in_files(query, pattern)
\* is the number of lines, over all files list_files(pattern) returns, that
\* contain the query case-insensitively.
C12_CountsEveryListedFile ==
    (call.op = "search_in_files" /\ result # NoResult) =>
        Len(result.matches) =
            Cardinality(Hits(result.files, call.query, LAMBDA f : TRUE))

\* C12 amended: the matches of search_in_files(query, pattern) are, in
\* order, the lines that contain the query case-insensitively over the files
\* list_files(pattern) returns that can be read as UTF-8 text; each match
\* carries the path of its file and the 1-based number of its line; a listed
\* file that cannot be read contributes no match.
C12_CountsReadableFiles ==
    (call.op = "search_in_files" /\ result # NoResult) =>
        LET hits == Hits(result.files, call.query, LAMBDA f : f.data = "text")
        IN  /\ Len(result.matches) = Cardinality(hits)
            /\ \A h \in hits :
                  \E j \in 1..Len(result.matches) :
                      /\ result.matches[j].file = result.files[h[1]].path
                      /\ result.matches[j].line = h[2]
            /\ \A j, k \in 1..Len(result.matches) :
                  (j < k) =>
                      \E g, h \in hits :
                          /\ result.matches[j].file = result.files[g[1]].path
                          /\ result.matches[j].line = g[2]
                          /\ result.matches[k].file = result.files[h[1]].path
                          /\ result.matches[k].line = h[2]
                          /\ \/ g[1] < h[1]
                             \/ g[1] = h[1] /\ g[2] < h[2]

\* C12 witness: a search found matches in several files through a query
\* whose letter case differs from the text, and a listed file that cannot be
\* read holds a line with the query
C12_Witness ==
    /\ call.op = "search_in_files"
    /\ result # NoResult
    /\ \E j, k \in 1..Len(result.matches) :
          result.matches[j].file # result.matches[k].file
    /\ \E j \in 1..Len(result.matches) :
          /\ ~Contains(FileAt(agent.corpus,
                 RepoPath \o result.matches[j].file).lines[result.matches[j].line],
                 call.query)
    /\ Hits(result.files, call.query, LAMBDA f : f.data # "text") # {}

\* the keys of a result of analyze_python_file that hold analysis
AnalysisKeys ==
    {"language", "metrics", "functions", "classes", "imports", "issues"}

\* ast.parse does not return a tree for the content of f
ParseFails(f) == f.syntax # 0 \/ f.raises

\* C13 as stated: a result for content that fails to parse is an error result
\* that carries the failing line number and no part of the analysis.
C13_ErrorCarriesLine ==
    (call.op = "analyze_python_file" /\ result # NoResult
        /\ ParseFails(call.f)) =>
        /\ "error" \in DOMAIN result.analysis
        /\ "line" \in DOMAIN result.analysis
        /\ DOMAIN result.analysis \cap AnalysisKeys = {}

\* C13 amended: a result for content that fails to parse is an error result
\* without any part of the analysis; it carries the failing line number when
\* ast.parse raised SyntaxError, and the file and the error text only when
\* ast.parse raised another exception.  A result for content that parses is
\* an analysis without error.
C13_ErrorNeverPartial ==
    (call.op = "analyze_python_file" /\ result # NoResult) =>
        /\ ParseFails(call.f) =>
              /\ "error" \in DOMAIN result.analysis
              /\ DOMAIN result.analysis \cap AnalysisKeys = {}
              /\ result.suggestions = << >>
        /\ call.f.syntax # 0 =>
              /\ DOMAIN result.analysis = {"file", "error", "line"}
              /\ result.analysis.line = call.f.syntax
        /\ (call.f.syntax = 0 /\ call.f.raises) =>
              DOMAIN result.analysis = {"file", "error"}
        /\ ~ParseFails(call.f) =>
              DOMAIN result.analysis = {"file"} \cup AnalysisKeys

\* C13 witness: content with an issue on its first line and with function
\* definitions failed to parse at line 2 and the result says so
C13_Witness ==
    /\ call.op = "analyze_python_file"
    /\ result # NoResult
    /\ call.f.syntax = 2
    /\ result.analysis.line = 2
    /\ LineIssues(call.f.lines[1], 1) # << >>
    /\ \E i \in 1..Len(call.f.nodes) : call.f.nodes[i].kind = "FunctionDef"

\* the top-level function definitions of the content, sync or async
TopLevelFunctions(f) ==
    SelectSeq(f.nodes, LAMBDA n :
        n.kind \in {"FunctionDef", "AsyncFunctionDef"} /\ n.depth = 0)

\* C14: for content that parses, the function list has exactly one entry for
\* each top-level function definition, sync or async, with the line numbers
\* in source order.
C14_EveryFunctionCollected ==
    (call.op = "analyze_python_file" /\ result # NoResult
        /\ ~ParseFails(call.f)) =>
        LET functions == result.analysis.functions
        IN  /\ Len(functions) = Len(TopLevelFunctions(call.f))
            /\ \A i \in 1..Len(functions) :
                  functions[i].line = TopLevelFunctions(call.f)[i].line
            /\ \A i, j \in 1..Len(functions) :
                  (i < j) => functions[i].line < functions[j].line

\* the entries of the function list whose definition has no docstring
Undocumented(f, functions) ==
    SelectSeq(functions, LAMBDA e :
        \E i \in 1..Len(f.nodes) :
            /\ f.nodes[i].name = e.name
            /\ f.nodes[i].line = e.line
            /\ ~f.nodes[i].doc)

\* the blocks radon reports with a complexity above 10
HighComplexity(f) ==
    IF f.cc.ok THEN SelectSeq(f.cc.blocks, LAMBDA b : b.complexity > 10)
    ELSE << >>

\* the kinds of suggestion, told apart by their fixed text
IsRefactor(s) == Len(s) >= 3 /\ s[3] = " functions with high complexity (>10). "
IsLowMaintainability(s) == s[1] = "Low maintainability index ("
IsDocumentation(s) == Len(s) >= 2 /\ s[2] = " functions lack docstrings. "

\* C15: the suggestions of a file analysis are exactly, in this order: a
\* refactor suggestion iff some function has complexity above 10, naming at
\* most 3 of them; a low-maintainability warning iff a maintainability index
\* is present and below 20; a documentation suggestion iff more than 3 of
\* the functions lack documentation, documented functions not counting.
C15_SuggestionsExact ==
    (call.op = "analyze_python_file" /\ result # NoResult
        /\ ~ParseFails(call.f)) =>
        LET s    == result.suggestions
            high == HighComplexity(call.f)
            low  == call.f.mi.ok /\ call.f.mi.value < 20
            docs == Len(Undocumented(call.f, result.analysis.functions)) > 3
            named == IF Len(high) < 3 THEN Len(high) ELSE 3
        IN  /\ Len(s) = (IF high # << >> THEN 1 ELSE 0)
                          + (IF low THEN 1 ELSE 0) + (IF docs THEN 1 ELSE 0)
            /\ (high # << >>) <=> (\E i \in 1..Len(s) : IsRefactor(s[i]))
            /\ low <=> (\E i \in 1..Len(s) : IsLowMaintainability(s[i]))
            /\ docs <=> (\E i \in 1..Len(s) : IsDocumentation(s[i]))
            /\ \A i \in 1..Len(s) :
                  IsRefactor(s[i]) =>
                      /\ i = 1
                      /\ s[i][2] = ToString(Len(high))
                      /\ SubSeq(s[i], 5, Len(s[i])) =
                             JoinComma([k \in 1..named |-> high[k].name])

\* the severity of an issue as the histogram reads it
SeverityOf(issue) ==
    IF "severity" \in DOMAIN issue THEN issue.severity ELSE "unknown"

\* the sum of the values of a function with a finite domain
RECURSIVE SumOf(_)
SumOf(h) ==
    IF DOMAIN h = {} THEN 0
    ELSE LET k == CHOOSE x \in DOMAIN h : TRUE
         IN  h[k] + SumOf([x \in DOMAIN h \ {k} |-> h[x]])

\* C16: the severity histogram of a list of issues and of any permutation
\* of it are the same mapping; its keys are the severities that occur, each
\* count is the number of issues of that severity, and the counts sum to the
\* number of issues.
C16_HistogramOrderIndependent ==
    (call.op = "issues_summary" /\ result # NoResult) =>
        /\ result.histogram = result.reordered
        /\ DOMAIN result.histogram =
               {SeverityOf(call.issues[i]) : i \in 1..Len(call.issues)}
        /\ \A k \in DOMAIN result.histogram :
              result.histogram[k] =
                  Cardinality({i \in 1..Len(call.issues) :
                                  SeverityOf(call.issues[i]) = k})
        /\ SumOf(result.histogram) = Len(call.issues)

\* C16 witness: the histogram was built over issues of several severities,
\* one of them twice, and over the same issues in another order
C16_Witness ==
    /\ call.op = "issues_summary"
    /\ result # NoResult
    /\ call.issues # call.reordered
    /\ Cardinality(DOMAIN result.histogram) > 1
    /\ \E k \in DOMAIN result.histogram : result.histogram[k] > 1
    /\ SeverityOf(call.issues[1]) # SeverityOf(call.reordered[1])

\* the paths of the file leaves of a tree, relative to its root
RECURSIVE LeafPaths(_, _)
LeafPaths(tree, prefix) ==
    UNION {IF tree.children[i].type = "file"
           THEN {prefix \o <<tree.children[i].name>>}
           ELSE LeafPaths(tree.children[i],
                          prefix \o <<tree.children[i].name>>) :
              i \in 1..Len(tree.children)}

\* C17: get_file_structure applies the same ignore rules as list_files: a
\* file is a leaf of the tree exactly when list_files("*") returns it.
C17_TreeMatchesListing ==
    (call.op = "get_file_structure" /\ result # NoResult) =>
        LeafPaths(result.structure, << >>) =
            {result.files[i].path : i \in 1..Len(result.files)}

\* the state a run for query q holds after its first k stages when it is
\* the only run the agent ever makes, each stage appending its one message
RECURSIVE Solo(_, _)
Solo(q, k) ==
    IF k = 0 THEN initial_state(q)
    ELSE LET s == Solo(q, k - 1)
         IN  CASE k = 1 -> understand_query(s)
               [] k = 2 -> plan_search(s)
               [] k = 3 -> execute_search(s,
                               Search(agent.corpus, agent.has_fs,
                                      agent.github_url,
                                      s.analysis_results.search_plan,
                                      << >>).results)
               [] k = 4 -> analyze_code(s, agent.corpus, agent.has_fs)
               [] OTHER -> generate_response(s)

\* the run held in bundle b works on nothing but what its own query
\* produced
OwnStateOnly(b) ==
    LET solo == Solo(b.state.user_query, Len(b.trace))
    IN  /\ (b.phase = "running" /\ b.trace = << >>) =>
              /\ b.state.messages = << >>
              /\ b.state.analysis_results = << >>
              /\ b.calls = << >>
        /\ b.state.analysis_results = solo.analysis_results
        /\ \A i \in 1..Len(b.state.messages) :
              \E j \in 1..Len(solo.messages) :
                  b.state.messages[i] = solo.messages[j]
        /\ \A i \in 1..Len(b.returned.messages) :
              \E j \in 1..Len(solo.messages) :
                  b.returned.messages[i].content = solo.messages[j].content

\* the local variables of the call of run that is executing
Executing ==
    [phase |-> phase, active |-> active, trace |-> trace, state |-> state,
     calls |-> calls, responses |-> responses, context |-> context,
     raised |-> raised, returned |-> returned]

\* C18: every call of run starts from an empty message trail and an empty
\* payload, and for any sequence or interleaving of queries on one agent the
\* trail and the payload of a run hold only what its own query produces,
\* as if it were the only query ever asked.
C18_FreshStatePerRun ==
    /\ OwnStateOnly(Executing)
    /\ OwnStateOnly(parked)

\* C18 witness: two runs for different queries are under way on the same
\* agent, both past AnalyzeCode, one of them with files, matches and issues
C18_Witness ==
    /\ phase = "running"
    /\ parked.phase = "running"
    /\ Len(trace) >= 4
    /\ Len(parked.trace) >= 4
    /\ state.user_query # parked.state.user_query
    /\ state.analysis_results.search_results.files # << >>
    /\ state.analysis_results.code_analysis.issues # << >>
    /\ parked.state.analysis_results.search_results.files = << >>

\* the paths of the entries of file_analyses
AnalyzedPaths ==
    LET analyses == Payload("code_analysis").file_analyses
    IN  {analyses[i].file : i \in 1..Len(analyses)}

\* the number of entries a sequence of sequences holds in all
RECURSIVE TotalLen(_)
TotalLen(xs) ==
    IF xs = << >> THEN 0 ELSE Len(Head(xs)) + TotalLen(Tail(xs))

\* C19: within one query a file is analyzed at most once: no path appears
\* twice among the file analyses, and the aggregated issues are as many as
\* the issues of the distinct analyzed files, even when a file name matches
\* more than one pattern of the plan.
C19_AnalyzedOncePerFile ==
    (agent.has_fs /\ Completed(4)) =>
        LET analysis == Payload("code_analysis")
            analyses == analysis.file_analyses
            once     == {i \in 1..Len(analyses) :
                            \A j \in 1..(i - 1) :
                                analyses[j].file # analyses[i].file}
        IN  /\ \A i, j \in 1..Len(analyses) :
                  analyses[i].file = analyses[j].file => i = j
            /\ Cardinality(AnalyzedPaths) = Len(analyses)
            /\ Len(analysis.issues)
                  = TotalLen([i \in 1..Len(analyses) |->
                        IF i \in once /\ "issues" \in DOMAIN analyses[i]
                        THEN analyses[i].issues ELSE << >>])

\* the context handed to the LLM has a line that begins with the label
HasLine(label) ==
    \E i \in 1..Len(context) : Head(context[i]) = label

\* C20: the context handed to the LLM in GenerateResponse always carries the
\* number of files found, the number of matches found and the issues by
\* severity, also for a run without files, without matches or without
\* issues.
C20_CountsAlwaysPresent ==
    Completed(5) =>
        /\ HasLine("Files found: ")
        /\ HasLine("Code matches: ")
        /\ HasLine("Issues by severity: {")

\* stage n ran in this step
Ran(n) == trace' = Append(trace, n)

\* the payload entry k is the same before and after the step
Kept(k) ==
    /\ k \in DOMAIN state.analysis_results
    /\ k \in DOMAIN state'.analysis_results
    /\ state'.analysis_results[k] = state.analysis_results[k]

\* C21: a stage writes only its own output: ExecuteSearch leaves the search
\* plan as it was, AnalyzeCode leaves the search plan and the search results
\* as they were, GenerateResponse leaves the whole analysis payload as it
\* was, and no stage changes the user query, the repository path, the URL or
\* the agent.
C21_StagesWriteOwnOutput ==
    [][ /\ (\E n \in Nodes : Ran(n)) =>
              /\ state'.user_query = state.user_query
              /\ state'.repo_path = state.repo_path
              /\ state'.github_url = state.github_url
              /\ agent' = agent
        /\ Ran("execute_search") => Kept("search_plan")
        /\ Ran("analyze_code") =>
              /\ Kept("search_plan")
              /\ Kept("search_results")
              /\ "code_analysis" \in DOMAIN state'.analysis_results
        /\ Ran("generate_response") =>
              state'.analysis_results = state.analysis_results
      ]_vars

\* C21 witness: the five stages ran on a repository where the search kept
\* more files than AnalyzeCode analyzes and the analysis found issues
C21_Witness ==
    /\ Completed(5)
    /\ agent.has_fs
    /\ Len(Payload("search_results").files) > Len(Payload("code_analysis").file_analyses)
    /\ Payload("code_analysis").issues # << >>
    /\ Payload("search_plan").patterns # << >>
    /\ context # << >>

\* the last step answered a query for a session id that is not registered
UnknownQueried == reply.op = "query" /\ reply.id \notin DOMAIN sessions

\* C22: a query whose session id is not in sessions (never created, or
\* removed by delete_session) is answered with 404, agent.run is not called,
\* and sessions and temp_dirs are left as they were.
C22_UnknownSessionIs404 ==
    [][ UnknownQueried' =>
            /\ reply'.status = 404
            /\ ~reply'.ran
            /\ sessions' = sessions
            /\ temp_dirs' = temp_dirs
            /\ dirs' = dirs
      ]_vars

\* C22 witness: a query for a session that was deleted is answered with 404
\* while another session is registered
C22_Witness ==
    /\ UnknownQueried
    /\ reply.id \in deleted
    /\ reply.status = 404
    /\ DOMAIN sessions # {}

\* the last step answered an upload with an error status
UploadFailed ==
    /\ reply.op \in {"upload_zip", "upload_github"}
    /\ reply.status \in {400, 500}

\* C23: an upload that fails is answered with 400 or 500, registers no
\* session and no temp_dirs entry, and leaves no temporary directory of its
\* own behind: the sessions listed are the same before and after it.
C23_FailedUploadLeavesNothing ==
    [][ (reply'.op \in {"upload_zip", "upload_github"}
            /\ reply'.status # 200) =>
            /\ reply'.status \in {400, 500}
            /\ sessions' = sessions
            /\ temp_dirs' = temp_dirs
            /\ reply'.dir \notin dirs'
            /\ reply'.dir \notin uploading'
            /\ dirs' \subseteq dirs
      ]_vars

\* C23 witness: a clone failed, or a ZIP upload failed after its directory
\* was created, while a session is registered
C23_Witness ==
    /\ UploadFailed
    /\ reply.dir # 0
    /\ DOMAIN sessions # {}

\* C25: between any two handler steps of the API sessions and temp_dirs have
\* the same keys; delete_session answers with success for a registered and
\* for an unknown session id, the id is in neither registry afterwards, and
\* deleting an id that is not registered changes neither registry nor the
\* disk.
C25_RegistriesAgree ==
    [][ /\ DOMAIN sessions' = DOMAIN temp_dirs'
        /\ reply'.op = "delete" =>
              /\ reply'.status = 200
              /\ reply'.id \notin DOMAIN sessions'
              /\ reply'.id \notin DOMAIN temp_dirs'
              /\ \A k \in DOMAIN sessions' : sessions'[k] = sessions[k]
              /\ reply'.id \notin DOMAIN sessions =>
                    /\ sessions' = sessions
                    /\ temp_dirs' = temp_dirs
                    /\ dirs' = dirs
      ]_vars

\* C25 witness: a session id is deleted a second time while another session
\* is registered
C25_Witness ==
    /\ reply.op = "delete"
    /\ ~reply.known
    /\ reply.id \in deleted
    /\ DOMAIN sessions # {}
    /\ DOMAIN temp_dirs = DOMAIN sessions

\* the first piece of the message of each rule, in the order of the rules
RuleLabels ==
    << "Use of eval() is dangerous", "Use of exec() is dangerous",
       "Hardcoded password detected", "TODO/FIXME comment found",
       "Line too long (" >>

\* the rule that emitted the issue
RuleOf(issue) ==
    CHOOSE r \in 1..Len(RuleLabels) : Head(issue.message) = RuleLabels[r]

\* the predicate of rule r holds on the line
RuleHolds(r, line) ==
    CASE r = 1 -> Contains(line, <<"e", "v", "a", "l", "(">>)
      [] r = 2 -> Contains(line, <<"e", "x", "e", "c", "(">>)
      [] r = 3 -> HasPasswordLiteral(line)
      [] r = 4 -> \/ Contains(line, <<"T", "O", "D", "O">>)
                  \/ Contains(line, <<"F", "I", "X", "M", "E">>)
      [] OTHER -> Len(line) > 120

\* the content whose issues are result.ab
Detected == call.a \o call.b

\* C24: _detect_python_issues emits, for every line and every rule, one
\* issue exactly when the rule holds on the line; the issues are ordered by
\* line number and, within a line, by the order of the rules (eval, exec,
\* password, TODO/FIXME, line length); the line-length rule fires exactly
\* for lines of more than 120 characters and reports the length of the line.
C24_RulesPerLine ==
    (call.op = "detect_python_issues" /\ result # NoResult) =>
        LET issues == result.ab
        IN  /\ \A i \in 1..Len(issues) :
                  /\ issues[i].line \in 1..Len(Detected)
                  /\ \E r \in 1..Len(RuleLabels) :
                        Head(issues[i].message) = RuleLabels[r]
            /\ \A i, j \in 1..Len(issues) :
                  i < j =>
                      \/ issues[i].line < issues[j].line
                      \/ /\ issues[i].line = issues[j].line
                         /\ RuleOf(issues[i]) < RuleOf(issues[j])
            /\ \A n \in 1..Len(Detected) : \A r \in 1..Len(RuleLabels) :
                  RuleHolds(r, Detected[n]) <=>
                      \E i \in 1..Len(issues) :
                          issues[i].line = n /\ RuleOf(issues[i]) = r
            /\ \A i \in 1..Len(issues) :
                  RuleOf(issues[i]) = 5 =>
                      issues[i].message =
                          <<"Line too long (",
                            ToString(Len(Detected[issues[i].line])),
                            " characters)">>

\* C24 witness: the content has a line with five issues that is not the
\* first line, a line of 120 characters without an issue and a line of 121
\* characters
C24_Witness ==
    /\ call.op = "detect_python_issues"
    /\ result # NoResult
    /\ \E n \in 2..Len(Detected) :
          Cardinality({i \in 1..Len(result.ab) : result.ab[i].line = n}) = 5
    /\ \E n \in 1..Len(Detected) :
          /\ Len(Detected[n]) = 120
          /\ \A i \in 1..Len(result.ab) : result.ab[i].line # n
    /\ \E n \in 1..Len(Detected) : Len(Detected[n]) = 121

\* plan_search takes the query for a bug/error query: it mentions "bug" or
\* "error" and none of the words of the branches before
BugQuery(user_query) ==
    LET q == Lower(user_query)
        has(w) == Contains(q, w)
    IN  /\ has(<<"b", "u", "g">>) \/ has(<<"e", "r", "r", "o", "r">>)
        /\ ~has(<<"a", "u", "t", "h">>)
        /\ ~has(<<"d", "a", "t", "a", "b", "a", "s", "e">>)
        /\ ~has(<<"s", "q", "l">>)
        /\ ~has(<<"a", "p", "i">>)
        /\ ~has(<<"e", "n", "d", "p", "o", "i", "n", "t">>)

\* the number of descriptors execute_search kept from its list_files calls
KeptFiles ==
    SumOf([i \in 1..Len(calls) |->
              IF calls[i].op = "list_files" THEN calls[i].kept ELSE 0])

\* execute_search asked for the file structure
FallbackCalled ==
    \E i \in 1..Len(calls) : calls[i].op = "get_file_structure"

\* C26: on a local repository the file structure is fetched exactly when the
\* pattern listing kept no file descriptor, however many keyword matches
\* there are; a bug/error query has no pattern, so it keeps no descriptor,
\* always fetches the file structure, and its analysis has no file analysis,
\* no issue and no suggestion.
C26_FallbackIffNoFiles ==
    (agent.has_fs /\ Completed(3)) =>
        LET results == Payload("search_results")
        IN  /\ Len(results.files) = KeptFiles
            /\ FallbackCalled <=> KeptFiles = 0
            /\ "structure" \in DOMAIN results <=> KeptFiles = 0
            /\ BugQuery(state.user_query) =>
                  /\ Payload("search_plan").patterns = << >>
                  /\ results.files = << >>
                  /\ "structure" \in DOMAIN results
                  /\ Completed(4) =>
                        /\ Payload("code_analysis").file_analyses = << >>
                        /\ Payload("code_analysis").issues = << >>
                        /\ Payload("code_analysis").suggestions = << >>

\* C26 witness: a bug/error query on a repository with Python files found
\* keyword matches, fetched the file structure and analyzed nothing
C26_Witness ==
    /\ agent.has_fs
    /\ Completed(4)
    /\ BugQuery(state.user_query)
    /\ Payload("search_results").matches # << >>
    /\ FallbackCalled
    /\ Payload("code_analysis").file_analyses = << >>
    /\ \E i \in 1..Len(agent.corpus) :
          EndsWith(agent.corpus[i].name, <<".", "p", "y">>)

=============================================================================
